---- MODULE Spec2Model ----
(***************************************************************************)
(* notion-second-brain: capture -> dedup -> enrich -> local store, and the *)
(* background sync of the local outbox to the remote database.             *)
(*                                                                         *)
(* Text is a sequence of one-character strings, so that the normalizer,    *)
(* strip() and splitlines() are computed character by character.           *)
(***************************************************************************)
EXTENDS Integers, Sequences, FiniteSets, TLC

\* ------------------------------------------------------------------ bounds
MaxClock == 1
MaxFailures == 1
MaxBoots == 1
\* process_text calls made on behalf of captures whose upstream answer varies.
MaxCalls == 2
\* Length of the texts normalize_text is tried on.
MaxLen == 4
\* Elements of the lists _normalize_actions is tried on.
MaxItems == 2
\* Lines of the pasted emails normalize_text is tried on.
MaxLines == 5

\* ------------------------------------------------------- program constants
DefaultRetryDelay == 60
DefaultMaxAttempts == 5
ErrorMsgLimit == 1000

\* --------------------------------------------------------- text primitives
\* str.strip() with no argument removes whitespace at both ends.
Whitespace == {" ", "\t", "\n", "\r", "\f"}

Max(a, b) == IF a >= b THEN a ELSE b

RECURSIVE LStripSet(_, _)
LStripSet(s, cs) ==
    IF s # <<>> /\ Head(s) \in cs THEN LStripSet(Tail(s), cs) ELSE s

RECURSIVE RStripSet(_, _)
RStripSet(s, cs) ==
    IF s # <<>> /\ s[Len(s)] \in cs
    THEN RStripSet(SubSeq(s, 1, Len(s) - 1), cs)
    ELSE s

StripSet(s, cs) == RStripSet(LStripSet(s, cs), cs)

Strip(s) == StripSet(s, Whitespace)

\* str.split(sep) for a one-character separator: always at least one piece.
RECURSIVE SplitAcc(_, _, _)
SplitAcc(s, sep, cur) ==
    IF s = <<>> THEN <<cur>>
    ELSE IF Head(s) = sep THEN <<cur>> \o SplitAcc(Tail(s), sep, <<>>)
    ELSE SplitAcc(Tail(s), sep, Append(cur, Head(s)))

Split(s, sep) == SplitAcc(s, sep, <<>>)

\* sep.join(parts)
RECURSIVE Join(_, _)
Join(parts, sep) ==
    IF parts = <<>> THEN <<>>
    ELSE IF Len(parts) = 1 THEN parts[1]
    ELSE parts[1] \o <<sep>> \o Join(Tail(parts), sep)

\* str.lower() on the letters the model's alphabet holds.
Lower(c) ==
    CASE c = "S" -> "s"
      [] c = "A" -> "a"
      [] c = "B" -> "b"
      [] c = "K" -> "k"
      [] OTHER -> c

StartsWith(s, p) == Len(s) >= Len(p) /\ SubSeq(s, 1, Len(p)) = p

\* ------------------------------------------------------------- normalizer
SIGNATURE_MARKERS ==
    { <<"s","a","l","u","d","o","s">>,
      <<"a","t","e","n","t","a","m","e","n","t","e">>,
      <<"b","e","s","t"," ","r","e","g","a","r","d","s">>,
      <<"k","i","n","d"," ","r","e","g","a","r","d","s">> ,
      <<"-","-">> }

\* text.replace("\r\n", "\n").replace("\r", "\n")
RECURSIVE ReplaceCR(_)
ReplaceCR(s) ==
    IF s = <<>> THEN <<>>
    ELSE IF Head(s) = "\r" /\ Len(s) >= 2 /\ s[2] = "\n"
         THEN <<"\n">> \o ReplaceCR(SubSeq(s, 3, Len(s)))
    ELSE IF Head(s) = "\r" THEN <<"\n">> \o ReplaceCR(Tail(s))
    ELSE <<Head(s)>> \o ReplaceCR(Tail(s))

normalize_newlines(text) == Strip(ReplaceCR(text))

\* re.sub(r"[ \t]+", " ", line)
RECURSIVE CollapseRuns(_)
CollapseRuns(s) ==
    IF s = <<>> THEN <<>>
    ELSE IF Head(s) \in {" ", "\t"}
         THEN <<" ">> \o CollapseRuns(LStripSet(s, {" ", "\t"}))
    ELSE <<Head(s)>> \o CollapseRuns(Tail(s))

collapse_spaces(text) ==
    LET lines == Split(text, "\n")
        out == [i \in 1..Len(lines) |-> Strip(CollapseRuns(lines[i]))]
    IN  Strip(Join(out, "\n"))

IsMarkerLine(line) ==
    LET stripped == Strip(line)
        candidate == [i \in 1..Len(stripped) |-> Lower(stripped[i])]
    IN  \E m \in SIGNATURE_MARKERS : StartsWith(candidate, m)

\* Mutant of the loop of _strip_signature_conservative: a marker beyond the
\* guard drops the last line only.
RECURSIVE StripSigDropsLastLine(_, _)
StripSigDropsLastLine(lines, k) ==
    IF k = 0 THEN Join(lines, "\n")
    ELSE IF IsMarkerLine(lines[k]) /\ (k - 1) > Max(2, Len(lines) \div 3)
         THEN Strip(Join(SubSeq(lines, 1, Len(lines) - 1), "\n"))
    ELSE StripSigDropsLastLine(lines, k - 1)

\* The loop runs i = len-1 .. 0 (0-based); k = i + 1 is the 1-based index.
RECURSIVE StripSigFrom(_, _)
StripSigFrom(lines, k) ==
    IF k = 0 THEN Join(lines, "\n")
    ELSE IF IsMarkerLine(lines[k]) /\ (k - 1) > Max(2, Len(lines) \div 3)
         THEN Strip(Join(SubSeq(lines, 1, k - 1), "\n"))
    ELSE StripSigFrom(lines, k - 1)

strip_signature_conservative(text) ==
    LET lines == Split(text, "\n") IN StripSigFrom(lines, Len(lines))

EMAIL_PASTED == <<"e","m","a","i","l","_","p","a","s","t","e","d">>
MANUAL == <<"m","a","n","u","a","l">>

\* Mutant of normalize_text: spaces are collapsed before the line breaks are
\* normalized.
normalize_text_swapped(raw_text, source) ==
    LET text == normalize_newlines(collapse_spaces(raw_text))
    IN  IF source = EMAIL_PASTED
        THEN collapse_spaces(strip_signature_conservative(text))
        ELSE text

normalize_text(raw_text, source) ==
    LET text == collapse_spaces(normalize_newlines(raw_text))
    IN  IF source = EMAIL_PASTED
        THEN collapse_spaces(strip_signature_conservative(text))
        ELSE text

\* ---------------------------------------------------------------- hashing
\* The SHA-256 digest is taken as collision-free: the source id is identified
\* with the byte string that is hashed, normalized_text || "||" || source.
\* Mutant of compute_source_id: the separator is left out.
compute_source_id_unseparated(normalized_text, source) ==
    normalized_text \o source

compute_source_id(normalized_text, source) ==
    normalized_text \o <<"|", "|">> \o source


\* str.splitlines(): line boundaries are "\n", "\r", "\r\n" and "\f" (of the
\* model's alphabet); a boundary at the very end opens no further line.
SplitLines(s) ==
    LET r == ReplaceCR(s)
        t == [i \in 1..Len(r) |-> IF r[i] = "\f" THEN "\n" ELSE r[i]]
        pieces == Split(t, "\n")
    IN  IF t = <<>> THEN <<>>
        ELSE IF pieces[Len(pieces)] = <<>>
             THEN SubSeq(pieces, 1, Len(pieces) - 1)
        ELSE pieces

\* [f(x) for x in xs if f(x)] with f = strip
RECURSIVE StripNonEmpty(_)
StripNonEmpty(xs) ==
    IF xs = <<>> THEN <<>>
    ELSE IF Strip(Head(xs)) = <<>> THEN StripNonEmpty(Tail(xs))
    ELSE <<Strip(Head(xs))>> \o StripNonEmpty(Tail(xs))

\* -------------------------------------------------------------- processor
\* Decoded JSON (and Python literal) values, tagged by type.  s is str(v) for
\* a string, a number and None; items are the elements of a list; members are
\* the key/value pairs of an object in document order.
JVal(type, str, items, members) ==
    [ type |-> type, s |-> str, items |-> items, members |-> members ]

JStr(str) == JVal("str", str, <<>>, <<>>)
JNull == JVal("null", <<"N","o","n","e">>, <<>>, <<>>)
JList(items) == JVal("list", <<>>, items, <<>>)
JObj(members) == JVal("object", <<>>, <<>>, members)

\* dict.get(key, default)
Get(obj, key, default) ==
    IF \E i \in 1..Len(obj.members) : obj.members[i].key = key
    THEN obj.members[CHOOSE i \in 1..Len(obj.members) :
                        /\ obj.members[i].key = key
                        /\ \A j \in (i + 1)..Len(obj.members) :
                              obj.members[j].key # key].value
    ELSE default

\* bool(v) is False
Falsy(v) ==
    \/ v.type = "null"
    \/ v.type = "str" /\ v.s = <<>>
    \/ v.type = "num" /\ v.s = <<"0">>
    \/ v.type = "list" /\ v.items = <<>>
    \/ v.type = "object" /\ v.members = <<>>

\* str(v or "").strip()
StrOrEmpty(v) == IF Falsy(v) THEN <<>> ELSE Strip(v.s)

\* The documents json.loads decodes, among the texts the model feeds it; it
\* raises JSONDecodeError on every other text.
DocObject ==
    <<"{", "\"", "a", "c", "c", "i", "o", "n", "e", "s", "\"", ":",
      "[", "\"", "x", "\\", "n", "-", " ", "y", "\"", "]", "}">>
DocArray == <<"[", "]">>
DocNull == <<"n", "u", "l", "l">>

JsonDocuments ==
    { [ text |-> DocObject,
        value |-> JObj(<< [key |-> "acciones",
                           value |-> JList(<< JStr(<<"x", "\n", "-", " ", "y">>) >>)] >>) ],
      [ text |-> <<"{", "}">>, value |-> JObj(<<>>) ],
      [ text |-> DocArray, value |-> JList(<<>>) ],
      [ text |-> DocNull, value |-> JNull ] }

json_loads(content) ==
    IF \E d \in JsonDocuments : d.text = content
    THEN [ raised |-> FALSE,
           value |-> (CHOOSE d \in JsonDocuments : d.text = content).value ]
    ELSE [ raised |-> TRUE, value |-> JNull ]

\* str.find / str.rfind of one character, 1-based; 0 stands for -1.
Find(str, c) ==
    IF \E i \in 1..Len(str) : str[i] = c
    THEN CHOOSE i \in 1..Len(str) :
            str[i] = c /\ \A j \in 1..(i - 1) : str[j] # c
    ELSE 0

RFind(str, c) ==
    IF \E i \in 1..Len(str) : str[i] = c
    THEN CHOOSE i \in 1..Len(str) :
            str[i] = c /\ \A j \in (i + 1)..Len(str) : str[j] # c
    ELSE 0

extract_json_object(content) ==
    LET text == Strip(content)
        first == json_loads(text)
        start == Find(text, "{")
        end == RFind(text, "}")
    IN  IF ~first.raised THEN first
        ELSE IF start = 0 \/ end = 0 \/ start >= end THEN first
        ELSE json_loads(SubSeq(text, start, end))

\* ast.literal_eval, on the texts the model feeds it: a list literal decodes,
\* every other text raises.
LiteralList == <<"[", "'", " ", "x", " ", "'", ",", "'", "'", "]">>

literal_eval(str) ==
    IF str = LiteralList
    THEN [ raised |-> FALSE,
           value |-> JList(<< JStr(<<" ", "x", " ">>), JStr(<<>>) >>) ]
    ELSE [ raised |-> TRUE, value |-> JNull ]

\* [chunk.strip(" -*\t") for chunk in value.replace("\r", "\n").split("\n")],
\* the empty chunks dropped; "*" stands for the bullet character U+2022.
RECURSIVE NonEmptyChunks(_)
NonEmptyChunks(chunks) ==
    IF chunks = <<>> THEN <<>>
    ELSE IF StripSet(Head(chunks), {" ", "-", "*", "\t"}) = <<>>
         THEN NonEmptyChunks(Tail(chunks))
    ELSE <<StripSet(Head(chunks), {" ", "-", "*", "\t"})>> \o NonEmptyChunks(Tail(chunks))

ChunksOf(str) ==
    NonEmptyChunks(Split([i \in 1..Len(str) |->
                             IF str[i] = "\r" THEN "\n" ELSE str[i]], "\n"))

\* str(item).strip() of every item, the empty ones dropped.
RECURSIVE StrippedItems(_)
StrippedItems(items) ==
    IF items = <<>> THEN <<>>
    ELSE IF Strip(Head(items).s) = <<>> THEN StrippedItems(Tail(items))
    ELSE <<Strip(Head(items).s)>> \o StrippedItems(Tail(items))

\* ", ".join(parts)
RECURSIVE JoinStr(_, _)
JoinStr(parts, sep) ==
    IF parts = <<>> THEN <<>>
    ELSE IF Len(parts) = 1 THEN parts[1]
    ELSE parts[1] \o sep \o JoinStr(Tail(parts), sep)

\* The branch of _normalize_actions for a dict element.
ActionsOfDict(value) ==
    LET description == StrOrEmpty(Get(value, "descripcion", JStr(<<>>)))
        raw_types == Get(value, "tipo_accion", JList(<<>>))
        action_types ==
            IF raw_types.type = "list" THEN StrippedItems(raw_types.items)
            ELSE <<>>
        subtasks == Get(value, "subtareas", JList(<<>>))
        main ==
            IF description = <<>> THEN <<>>
            ELSE IF action_types = <<>> THEN <<description>>
            ELSE << description
                    \o <<" ", "[", "T", "i", "p", "o", ":", " ">>
                    \o JoinStr(action_types, <<",", " ">>) \o <<"]">> >>
        subs ==
            IF subtasks.type = "list"
            THEN LET texts == [i \in 1..Len(subtasks.items) |->
                                  StrOrEmpty(subtasks.items[i])]
                 IN  StripNonEmpty(texts)
            ELSE <<>>
    IN  main \o subs

RECURSIVE ActionsOfList(_)
ActionsOfList(items) ==
    IF items = <<>> THEN <<>>
    ELSE LET value == Head(items)
             here == IF value.type = "object" THEN ActionsOfDict(value)
                     ELSE IF value.type = "str" THEN ChunksOf(value.s)
                     ELSE <<>>
         IN  here \o ActionsOfList(Tail(items))

normalize_actions(raw_actions) ==
    LET evaluated ==
            IF raw_actions.type = "str"
            THEN IF literal_eval(raw_actions.s).raised
                 THEN JList(<<raw_actions>>)
                 ELSE literal_eval(raw_actions.s).value
            ELSE raw_actions
    IN  IF evaluated.type = "null" THEN <<>>
        ELSE IF evaluated.type # "list" THEN ActionsOfList(<<JStr(evaluated.s)>>)
        ELSE ActionsOfList(evaluated.items)

empty_processed_note ==
    [ raised |-> FALSE, resumen |-> <<>>, acciones |-> <<>>,
      tipo_sugerido |-> <<>>, prioridad_sugerida |-> <<>> ]

\* What the upstream call does: it raises, or it answers output_text.
Raises == [ kind |-> "exception", output_text |-> <<>> ]
Answers(output_text) == [ kind |-> "text", output_text |-> output_text ]

\* process_text: a ProcessedNote, or raised when an exception leaves it.  The
\* try block ends with the parse; payload.get runs after it and raises
\* AttributeError on a payload that is no dict.
process_text(text, upstream) ==
    LET parsed == extract_json_object(upstream.output_text)
    IN  IF Strip(text) = <<>> THEN empty_processed_note
        ELSE IF upstream.kind = "exception" \/ parsed.raised
             THEN empty_processed_note
        ELSE IF parsed.value.type # "object"
             THEN [empty_processed_note EXCEPT !.raised = TRUE]
        ELSE [ raised |-> FALSE,
               resumen |-> StrOrEmpty(Get(parsed.value, "resumen", JStr(<<>>))),
               acciones |-> normalize_actions(Get(parsed.value, "acciones", JList(<<>>))),
               tipo_sugerido |-> StrOrEmpty(Get(parsed.value, "tipo_sugerido", JStr(<<>>))),
               prioridad_sugerida |->
                   StrOrEmpty(Get(parsed.value, "prioridad_sugerida", JStr(<<>>))) ]

\* --------------------------------------------------------------- the model
NULL == <<>>
Some(v) == <<v>>

PENDING == "pendiente"
SENT == "enviado"
ERROR == "error"

Workers == {1, 2}

PROP_TITLE == <<"A","c","t","i","v","i","d","a","d">>
PROP_AREA == <<"A","r","e","a">>
PROP_TIPO == <<"T","i","p","o">>
PROP_ESTADO == <<"E","s","t","a","d","o">>
PROP_FECHA == <<"F","e","c","h","a">>
PROP_PRIORIDAD == <<"P","r","i","o","r","i","d","a","d">>

\* AppSettings() with the dataclass defaults.
DefaultSettings ==
    [ notion_token |-> <<>>,
      notion_database_id |-> <<>>,
      prop_title |-> PROP_TITLE,
      prop_area |-> PROP_AREA,
      prop_tipo |-> PROP_TIPO,
      prop_estado |-> PROP_ESTADO,
      prop_fecha |-> PROP_FECHA,
      prop_prioridad |-> PROP_PRIORIDAD,
      max_attempts |-> DefaultMaxAttempts,
      retry_delay_seconds |-> DefaultRetryDelay ]

\* ------------------------------------------------------------ input sets
TOKEN == <<"t","k">>
DATABASE == <<"d","b">>

ConfiguredSettings(delay) ==
    [DefaultSettings EXCEPT !.notion_token = TOKEN,
                            !.notion_database_id = DATABASE,
                            !.retry_delay_seconds = delay]

BlankValues == { <<>>, <<" ">> }

CheckedFields ==
    { "notion_token", "notion_database_id", "prop_title", "prop_area",
      "prop_tipo", "prop_estado", "prop_fecha", "prop_prioridad" }

\* What save_settings may be given: a complete configuration with one of the
\* retry delays, or one with a single field left empty or blank.
SettingsChoices ==
    { ConfiguredSettings(d) : d \in {0, 1} }
    \cup { [ConfiguredSettings(1) EXCEPT ![f] = b] :
               f \in CheckedFields, b \in BlankValues }

SettingsMain == { ConfiguredSettings(1) }

\* What deactivate_master reads of the settings: the credentials, and the
\* property name of a category.
MasterSettings ==
    { ConfiguredSettings(1) }
    \cup { [ConfiguredSettings(1) EXCEPT ![f] = b] :
               f \in {"notion_token", "notion_database_id", "prop_area"},
               b \in BlankValues }

\* Captured texts.  TextA2 normalizes to TextA; TextS ends in a signature
\* block that is stripped for the pasted-email source only.
TextA == <<"a">>
TextA2 == <<" ", "a", "\t", "\r", "\n">>
TextS == <<"a", "\n", "b", "\n", "c", "\n", "-", "-">>

\* The workflow state the capture form sends when none is chosen.
Pendiente == <<"P","e","n","d","i","e","n","t","e">>

Requests ==
    { [raw_text |-> TextA, source |-> MANUAL, estado |-> Pendiente],
      [raw_text |-> TextA2, source |-> MANUAL, estado |-> Pendiente],
      [raw_text |-> TextS, source |-> EMAIL_PASTED, estado |-> Pendiente],
      [raw_text |-> <<"a", "\r", "\n", "b", " ", "\n", "c">>, source |-> EMAIL_PASTED, estado |-> Pendiente] }

RequestsA == { r \in Requests : r.source = MANUAL }

\* ProcessedNote.acciones as process_text may return it.
Enrichments ==
    { <<>>,
      << <<"x">>, <<"y">> >> }

\* A captured text holding a date token after "antes del".
TextObligation ==
    <<"a","n","t","e","s"," ","d","e","l"," ","1","5","/","0","3">>

RequestsActions ==
    { [raw_text |-> TextA, source |-> MANUAL, estado |-> Pendiente],
      [raw_text |-> TextObligation, source |-> MANUAL, estado |-> Pendiente] }

\* What the upstream call of process_text may do.
UpstreamResponses ==
    { Raises,
      Answers(DocObject),
      Answers(<<" ", "{", "}", "\n">>),
      Answers(<<"o", "k", ":", " ">> \o DocObject \o <<".">>),
      Answers(<<"n", "o">>),
      Answers(<<"}", " ", "{">>),
      Answers(<<"a", "{", "b", "}">>),
      Answers(DocArray),
      Answers(DocNull) }

\* The inserts of create_note's loop that may fail, by position.
ActionFailures(acciones) == SUBSET (1..Len(acciones))

TaskPage == <<"t", "1">>

\* What the GET of the remote database may answer.
GoodProps ==
    (PROP_TITLE :> "title") @@ (PROP_AREA :> "select") @@ (PROP_TIPO :> "select")
    @@ (PROP_ESTADO :> "select") @@ (PROP_FECHA :> "date")
    @@ (PROP_PRIORIDAD :> "select")

SchemaResponses ==
    { [kind |-> "network_error", props |-> <<>>],
      [kind |-> "http_error", props |-> <<>>],
      [kind |-> "not_json", props |-> <<>>],
      [kind |-> "json", props |-> GoodProps],
      [kind |-> "json", props |-> [p \in DOMAIN GoodProps \ {PROP_FECHA} |-> GoodProps[p]]],
      [kind |-> "json", props |-> [GoodProps EXCEPT ![PROP_ESTADO] = "status"]] }

\* -------------------------------------------------------- master registry
\* MastersRepository.DEFAULT_VALUES, in the order the dict is iterated.
DEFAULT_VALUES ==
    << [ category |-> "Area",
         values |-> << <<"G","e","n","e","r","a","l">>,
                       <<"P","e","r","c","e","c","o">>,
                       <<"I","n","f","o","r","m","á","t","i","c","a">> >> ],
       [ category |-> "Tipo",
         values |-> << <<"N","o","t","a">>,
                       <<"D","e","c","i","s","i","ó","n">>,
                       <<"I","n","c","i","d","e","n","c","i","a">>,
                       <<"T","a","r","e","a">> >> ],
       [ category |-> "Estado",
         values |-> << <<"P","e","n","d","i","e","n","t","e">>,
                       <<"E","n"," ","c","u","r","s","o">>,
                       <<"F","i","n","a","l","i","z","a","d","o">> >> ],
       [ category |-> "Prioridad",
         values |-> << <<"B","a","j","a">>,
                       <<"M","e","d","i","a">>,
                       <<"A","l","t","a">> >> ],
       [ category |-> "Origen",
         values |-> << <<"M","a","n","u","a","l">>,
                       <<"S","i","s","t","e","m","a">> >> ] >>

\* The rows of table m that hold (category, value): at most one, by the
\* UNIQUE(category, value) constraint the upserts rely on.
RowsOf(m, category, value) ==
    { i \in 1..Len(m) : m[i].category = category /\ m[i].value = value }

NewMasterRow(category, value, system_locked) ==
    [ category |-> category, value |-> value, active |-> TRUE,
      system_locked |-> system_locked ]

\* Mutant of the seeding upsert: a conflicting row is left as it is.
upsert_default_keeps_row(m, category, value, system_locked) ==
    IF RowsOf(m, category, value) = {}
    THEN Append(m, NewMasterRow(category, value, system_locked))
    ELSE m

\* INSERT ... ON CONFLICT(category, value) DO UPDATE
\*   SET active = 1, system_locked = MAX(system_locked, excluded.system_locked)
upsert_default(m, category, value, system_locked) ==
    IF RowsOf(m, category, value) = {}
    THEN Append(m, NewMasterRow(category, value, system_locked))
    ELSE [ i \in 1..Len(m) |->
             IF i \in RowsOf(m, category, value)
             THEN [m[i] EXCEPT !.active = TRUE,
                               !.system_locked = @ \/ system_locked]
             ELSE m[i] ]

\* The inner loop of ensure_default_values over one category's values.
RECURSIVE EnsureValues(_, _, _)
EnsureValues(m, category, values) ==
    IF values = <<>> THEN m
    ELSE EnsureValues(upsert_default(m, category, Head(values), category = "Estado"),
                      category, Tail(values))

RECURSIVE EnsureCategories(_, _)
EnsureCategories(m, defaults) ==
    IF defaults = <<>> THEN m
    ELSE EnsureCategories(
             EnsureValues(m, Head(defaults).category, Head(defaults).values),
             Tail(defaults))

ensure_default_values(m) == EnsureCategories(m, DEFAULT_VALUES)

\* Mutant of add_master: the conflict clause also clears the lock.
add_master_resets_lock(m, category, value) ==
    LET normalized == Strip(value)
    IN  IF RowsOf(m, category, normalized) = {}
        THEN Append(m, NewMasterRow(category, normalized, FALSE))
        ELSE [ i \in 1..Len(m) |->
                 IF i \in RowsOf(m, category, normalized)
                 THEN [m[i] EXCEPT !.active = TRUE, !.system_locked = FALSE]
                 ELSE m[i] ]

\* Mutant of add_master: the value is stored as typed.
add_master_untrimmed(m, category, value) ==
    IF RowsOf(m, category, value) = {}
    THEN Append(m, NewMasterRow(category, value, FALSE))
    ELSE [ i \in 1..Len(m) |->
             IF i \in RowsOf(m, category, value)
             THEN [m[i] EXCEPT !.active = TRUE]
             ELSE m[i] ]

\* MastersRepository.add_master, past its check of the trimmed value:
\* INSERT ... VALUES(?, ?, 1, 0) ON CONFLICT(category, value) DO UPDATE SET active = 1
add_master(m, category, value) ==
    LET normalized == Strip(value)
    IN  IF RowsOf(m, category, normalized) = {}
        THEN Append(m, NewMasterRow(category, normalized, FALSE))
        ELSE [ i \in 1..Len(m) |->
                 IF i \in RowsOf(m, category, normalized)
                 THEN [m[i] EXCEPT !.active = TRUE]
                 ELSE m[i] ]

\* UPDATE masters SET active = 0
\*   WHERE category = ? AND value = ? AND system_locked = 0
deactivate_master(m, category, value) ==
    [ i \in 1..Len(m) |->
        IF i \in RowsOf(m, category, value) /\ ~m[i].system_locked
        THEN [m[i] EXCEPT !.active = FALSE]
        ELSE m[i] ]

\* UPDATE masters SET active = 0 WHERE id = ?  (the id of a row is its
\* position: rows are numbered as inserted and never deleted)
deactivate_value(m, id) ==
    [ i \in 1..Len(m) |-> IF i = id THEN [m[i] EXCEPT !.active = FALSE] ELSE m[i] ]

\* Mutant of is_locked: no value is reported locked.
is_locked_never(m, category, value) == FALSE

is_locked(m, category, value) ==
    \E i \in RowsOf(m, category, value) : m[i].system_locked

\* Master values the registry operations are called with: seeds, a new value
\* as typed (with and without surrounding blanks), a blank one.
General == DEFAULT_VALUES[1].values[1]
Finalizado == DEFAULT_VALUES[3].values[3]
Ventas == <<"V","e","n","t","a","s">>
Bloqueado == <<"B","l","o","q","u","e","a","d","o">>

MasterInputs ==
    { <<"Area", General>>, <<"Area", Ventas>>, <<"Area", <<" ">> \o Ventas \o <<" ">> >>,
      <<"Area", <<" ">> >>, <<"Estado", Finalizado>>, <<"Estado", Bloqueado>>,
      <<"Origen", DEFAULT_VALUES[5].values[1]>> }

\* What the open-record query may answer: an error, or the number of results
\* on each page of the answer (has_more on all pages but the last).
CountResponses ==
    { [kind |-> "network_error", pages |-> <<>>],
      [kind |-> "http_error", pages |-> <<>>],
      [kind |-> "json", pages |-> <<0>>],
      [kind |-> "json", pages |-> <<1>>],
      [kind |-> "json", pages |-> <<1, 1>>] }

\* ---------------------------------------------------------------- state
VARIABLES
    notes,      \* notes_local rows; the row id is the index
    actions,    \* actions rows; the row id is the index
    settings,   \* the settings table, read as AppSettings
    clock,      \* datetime.utcnow() in whole seconds
    pc,         \* per sync thread: where it is in sync_pending
    loc,        \* per sync thread: the locals of sync_pending
    obs,        \* per sync thread: what the pass has done so far
    pages,      \* remote: main records created, per note id
    tasks,      \* remote: sub-records created, per note id
    ret,        \* the last create_note call: the source id it computed, its result
    calls,      \* number of process_text calls made
    masters,    \* masters rows; the row id is the index
    mop,        \* the last master operation: its arguments, its progress, its result
    boots       \* one entry per stop of the process: the rows of the notes whose
                \* remote record it had created and not yet recorded

vars ==
    <<notes, actions, settings, clock, pc, loc, obs, pages, tasks, ret, calls,
      masters, mop, boots>>

IdleLoc ==
    [ settings |-> NULL, queue |-> <<>>, idx |-> 0, page_id |-> NULL,
      lines |-> <<>>, li |-> 0, exc |-> NULL, attempts |-> NULL,
      sent |-> 0, failed |-> 0 ]

NoObs ==
    [ result |-> "none", net |-> 0, creates |-> 0, writes |-> 0,
      tried |-> <<>>, marked_sent |-> 0, marked_error |-> 0,
      schema |-> NULL, task_tried |-> <<>>, task_failed |-> FALSE ]

NoRet ==
    [ op |-> "none", arg |-> NULL, val |-> NULL, raised |-> FALSE,
      acciones |-> <<>>, failed |-> {}, net |-> 0, remote |-> "none" ]

NoMop ==
    [ op |-> "none", category |-> "", value |-> <<>>, result |-> "none",
      net |-> 0, count |-> NULL, changed |-> FALSE ]

Init ==
    /\ notes = <<>>
    /\ actions = <<>>
    /\ settings = DefaultSettings
    /\ clock = 0
    /\ pc = [w \in Workers |-> "idle"]
    /\ loc = [w \in Workers |-> IdleLoc]
    /\ obs = [w \in Workers |-> NoObs]
    /\ pages = <<>>
    /\ tasks = <<>>
    /\ ret = NoRet
    /\ calls = 0
    /\ masters = ensure_default_values(<<>>)
    /\ mop = NoMop
    /\ boots = <<>>

\* ------------------------------------------------------------ repositories
\* Mutant of source_exists: the dedup lookup finds nothing.
source_exists_never(source_id) == FALSE

\* Mutant of source_exists: only the oldest row is looked at.
source_exists_first_row(source_id) ==
    notes # <<>> /\ notes[1].source_id = source_id

source_exists(source_id) ==
    \E n \in 1..Len(notes) : notes[n].source_id = source_id

NewNoteRow(req, source_id, acciones) ==
    [ source |-> req.source, source_id |-> source_id, acciones |-> acciones,
      estado |-> req.estado,
      status |-> PENDING, notion_page_id |-> NULL, last_error |-> NULL,
      attempts |-> 0, next_retry_at |-> NULL ]

NewActionRow(note_id, description) ==
    [ note_id |-> note_id, description |-> description, status |-> "pendiente",
      completed_at |-> NULL, notion_page_id |-> NULL ]

\* The Action a row is read as: the row's columns, among them the optional
\* identifier of its remote record.
to_action(row) == row

\* Mutant of mark_action_done: the status is flipped.
mark_action_done_toggle(rows, action_id, now) ==
    [ i \in 1..Len(rows) |->
        IF i = action_id
        THEN [rows[i] EXCEPT !.status = IF @ = "hecha" THEN "pendiente" ELSE "hecha",
                             !.completed_at = Some(now)]
        ELSE rows[i] ]

\* UPDATE actions SET status = 'hecha', completed_at = ? WHERE id = ?
mark_action_done(rows, action_id, now) ==
    [ i \in 1..Len(rows) |->
        IF i = action_id
        THEN [rows[i] EXCEPT !.status = "hecha", !.completed_at = Some(now)]
        ELSE rows[i] ]

\* UPDATE actions SET notion_page_id = ? WHERE id = ?
set_notion_page_id(rows, action_id, notion_page_id) ==
    [ i \in 1..Len(rows) |->
        IF i = action_id
        THEN [rows[i] EXCEPT !.notion_page_id = Some(notion_page_id)]
        ELSE rows[i] ]

RECURSIVE RetryableFrom(_, _)
RetryableFrom(n, now_iso) ==
    IF n > Len(notes) THEN <<>>
    ELSE IF /\ notes[n].status \in {PENDING, ERROR}
            /\ (notes[n].next_retry_at = NULL \/ notes[n].next_retry_at[1] <= now_iso)
         THEN <<n>> \o RetryableFrom(n + 1, now_iso)
    ELSE RetryableFrom(n + 1, now_iso)

\* Mutants of list_retryable: the status filter dropped; "<" for "<=".
RECURSIVE RetryableAnyStatusFrom(_, _)
RetryableAnyStatusFrom(n, now_iso) ==
    IF n > Len(notes) THEN <<>>
    ELSE IF notes[n].next_retry_at = NULL \/ notes[n].next_retry_at[1] <= now_iso
         THEN <<n>> \o RetryableAnyStatusFrom(n + 1, now_iso)
    ELSE RetryableAnyStatusFrom(n + 1, now_iso)

list_retryable_any_status(now_iso) == RetryableAnyStatusFrom(1, now_iso)

RECURSIVE RetryableStrictFrom(_, _)
RetryableStrictFrom(n, now_iso) ==
    IF n > Len(notes) THEN <<>>
    ELSE IF /\ notes[n].status \in {PENDING, ERROR}
            /\ (notes[n].next_retry_at = NULL \/ notes[n].next_retry_at[1] < now_iso)
         THEN <<n>> \o RetryableStrictFrom(n + 1, now_iso)
    ELSE RetryableStrictFrom(n + 1, now_iso)

list_retryable_strict(now_iso) == RetryableStrictFrom(1, now_iso)

\* Mutant of list_retryable: only notes never tried before are taken.
RECURSIVE RetryablePendingFrom(_, _)
RetryablePendingFrom(n, now_iso) ==
    IF n > Len(notes) THEN <<>>
    ELSE IF /\ notes[n].status = PENDING
            /\ (notes[n].next_retry_at = NULL \/ notes[n].next_retry_at[1] <= now_iso)
         THEN <<n>> \o RetryablePendingFrom(n + 1, now_iso)
    ELSE RetryablePendingFrom(n + 1, now_iso)

list_retryable_pending_only(now_iso) == RetryablePendingFrom(1, now_iso)

\* Mutant of list_retryable: ORDER BY id DESC.
list_retryable_descending(now_iso) ==
    LET queue == RetryableFrom(1, now_iso)
    IN  [i \in 1..Len(queue) |-> queue[Len(queue) + 1 - i]]

list_retryable(now_iso) == RetryableFrom(1, now_iso)

mark_sent(note_id, notion_page_id) ==
    [notes EXCEPT ![note_id].status = SENT,
                  ![note_id].notion_page_id = Some(notion_page_id),
                  ![note_id].last_error = NULL]

Truncate(msg, k) == SubSeq(msg, 1, IF Len(msg) < k THEN Len(msg) ELSE k)

\* The UPDATE of mark_error, given the attempts value its SELECT returned.
mark_error_update(note_id, attempts, error_msg, retry_after_seconds) ==
    [notes EXCEPT ![note_id].status = ERROR,
                  ![note_id].last_error = Some(Truncate(error_msg, ErrorMsgLimit)),
                  ![note_id].attempts = attempts + 1,
                  ![note_id].next_retry_at = Some(clock + retry_after_seconds)]

\* -------------------------------------------------------------- capture
\* "\n".join(str(a).strip() for a in processed.acciones if str(a).strip())
AccionesText(acciones) == Join(StripNonEmpty(acciones), "\n")

\* What process_text hands back: a ProcessedNote, or the exception it let out.
Processed(acciones) == [empty_processed_note EXCEPT !.acciones = acciones]

\* The loop over processed.acciones: one create_action per non-empty
\* description; the positions in fails are those whose INSERT raises, which
\* the loop logs and passes over.
\* Mutant of PersistActions: the first failing insert ends the loop.
RECURSIVE PersistActionsAbort(_, _, _, _)
PersistActionsAbort(note_id, acciones, fails, i) ==
    IF i > Len(acciones) \/ i \in fails THEN <<>>
    ELSE IF Strip(acciones[i]) = <<>>
         THEN PersistActionsAbort(note_id, acciones, fails, i + 1)
    ELSE <<NewActionRow(note_id, Strip(acciones[i]))>>
             \o PersistActionsAbort(note_id, acciones, fails, i + 1)

RECURSIVE PersistActions(_, _, _, _)
PersistActions(note_id, acciones, fails, i) ==
    IF i > Len(acciones) THEN <<>>
    ELSE IF Strip(acciones[i]) = <<>> \/ i \in fails
         THEN PersistActions(note_id, acciones, fails, i + 1)
    ELSE <<NewActionRow(note_id, Strip(acciones[i]))>>
             \o PersistActions(note_id, acciones, fails, i + 1)

\* create_note, given what process_text does when it is reached and which of
\* the action inserts fail.
CreateNoteWith(req, processed, fails) ==
    LET normalized == normalize_text(req.raw_text, req.source)
        source_id == compute_source_id(normalized, req.source)
        note_id == Len(notes) + 1
        answer == [NoRet EXCEPT !.op = "create_note", !.arg = source_id]
    IN  /\ UNCHANGED <<settings, clock, pc, loc, obs, masters, mop, boots>>
        /\ IF source_exists(source_id)
           THEN /\ ret' = answer
                /\ UNCHANGED <<notes, actions, calls, pages, tasks>>
           ELSE IF processed.raised
           THEN /\ calls' = calls + 1
                /\ ret' = [answer EXCEPT !.raised = TRUE]
                /\ UNCHANGED <<notes, actions, pages, tasks>>
           ELSE /\ calls' = calls + 1
                /\ notes' = Append(notes,
                       NewNoteRow(req, source_id, AccionesText(processed.acciones)))
                /\ actions' = actions \o
                       PersistActions(note_id, processed.acciones, fails, 1)
                /\ pages' = Append(pages, 0)
                /\ tasks' = Append(tasks, 0)
                /\ ret' = [answer EXCEPT !.val = Some(note_id),
                                         !.acciones = processed.acciones,
                                         !.failed = fails]

\* create_note when process_text answers acciones and every insert succeeds.
CreateNote(req, acciones) == CreateNoteWith(req, Processed(acciones), {})

\* One call of the desktop thread at a time: a mark_action_done waiting for
\* the remote answer is still running.
UiIdle == ~(ret.op = "mark_action_done" /\ ret.val = "remote")

\* create_note, the upstream call of process_text answering as given.
CreateNoteUpstream(req, upstream, fails) ==
    /\ UiIdle
    /\ calls < MaxCalls
    /\ CreateNoteWith(req,
           process_text(normalize_text(req.raw_text, req.source), upstream),
           fails)

\* Mutant of MarkActionDone: the local UPDATE waits for the remote answer.
MarkActionDoneRemoteFirst(action_id) ==
    LET action == IF action_id \in 1..Len(actions)
                  THEN Some(to_action(actions[action_id]))
                  ELSE NULL
        answer == [NoRet EXCEPT !.op = "mark_action_done", !.arg = action_id]
        local == action = NULL \/ action[1].notion_page_id = NULL
                 \/ action[1].notion_page_id[1] = <<>>
                 \/ Strip(settings.notion_token) = <<>>
    IN  /\ UiIdle
        /\ actions' = IF local THEN mark_action_done(actions, action_id, clock)
                      ELSE actions
        /\ ret' = IF local THEN [answer EXCEPT !.val = "returned"]
                  ELSE [answer EXCEPT !.val = "remote"]
        /\ UNCHANGED <<notes, settings, clock, pc, loc, obs, pages, tasks, calls,
                       masters, mop, boots>>

\* mark_action_done up to its remote call: the local UPDATE, the re-read of
\* the action, the settings.
MarkActionDone(action_id) ==
    LET rows == mark_action_done(actions, action_id, clock)
        action == IF action_id \in 1..Len(rows) THEN Some(to_action(rows[action_id]))
                  ELSE NULL
        answer == [NoRet EXCEPT !.op = "mark_action_done", !.arg = action_id]
    IN  /\ UiIdle
        /\ actions' = rows
        /\ ret' =
             IF action = NULL \/ action[1].notion_page_id = NULL
                \/ action[1].notion_page_id[1] = <<>>
             THEN [answer EXCEPT !.val = "returned"]
             ELSE IF Strip(settings.notion_token) = <<>>
             THEN [answer EXCEPT !.val = "returned", !.remote = "no_token"]
             ELSE [answer EXCEPT !.val = "remote"]
        /\ UNCHANGED <<notes, settings, clock, pc, loc, obs, pages, tasks, calls,
                       masters, mop, boots>>

\* The answer of update_page_status: the page is updated, or the call raises
\* and the exception is logged.
MarkActionAnswer(ok) ==
    /\ ret.op = "mark_action_done"
    /\ ret.val = "remote"
    /\ ret' = [ret EXCEPT !.val = "returned", !.net = @ + 1,
                          !.remote = IF ok THEN "updated" ELSE "failed"]
    /\ UNCHANGED <<notes, actions, settings, clock, pc, loc, obs, pages, tasks,
                   calls, masters, mop, boots>>

SetNotionPageId(action_id, notion_page_id) ==
    /\ UiIdle
    /\ action_id \in 1..Len(actions)
    /\ actions' = set_notion_page_id(actions, action_id, notion_page_id)
    /\ UNCHANGED <<notes, settings, clock, pc, loc, obs, pages, tasks, ret, calls,
                   masters, mop, boots>>

SaveSettings(s) ==
    /\ settings' = s
    /\ UNCHANGED <<masters, mop, boots, notes, actions, clock, pc, loc, obs, pages, tasks, ret, calls>>

\* SettingsRepository.save one statement at a time: one INSERT per field of
\* the dataclass, in declaration order, on the connection every thread
\* shares; the single commit follows the last statement.  ret.net counts the
\* statements the running call has executed.
SettingsFields ==
    << "notion_token", "notion_database_id", "prop_title", "prop_area", "prop_tipo",
       "prop_estado", "prop_fecha", "prop_prioridad", "max_attempts",
       "retry_delay_seconds" >>

SettingsSaved ==
    { ConfiguredSettings(1),
      [ConfiguredSettings(1) EXCEPT !.notion_token = <<"t", "2">>,
                                    !.notion_database_id = <<"d", "2">>] }

SaveStatement(s) ==
    LET running == ret.op = "save" /\ ret.val = "running"
        k == IF running THEN ret.net + 1 ELSE 1
        f == SettingsFields[k]
    IN  /\ running => s = ret.arg
        /\ settings' = [settings EXCEPT ![f] = s[f]]
        /\ ret' = [NoRet EXCEPT !.op = "save", !.arg = s, !.net = k,
                                !.val = IF k = Len(SettingsFields) THEN "returned"
                                                                  ELSE "running"]
        /\ UNCHANGED <<masters, mop, boots, notes, actions, clock, pc, loc, obs, pages,
                       tasks, calls>>

Tick ==
    /\ clock < MaxClock
    /\ clock' = clock + 1
    /\ UNCHANGED <<masters, mop, boots, notes, actions, settings, pc, loc, obs, pages, tasks, ret, calls>>

\* ----------------------------------------------------------- sync_pending
IsBlank(v) == Strip(v) = <<>>

\* Mutant of _validate_notion_settings: prop_prioridad left out of the list.
validate_notion_settings_skips_one(s) ==
    \/ IsBlank(s.notion_token)
    \/ \E prop \in { s.prop_title, s.prop_area, s.prop_tipo, s.prop_estado,
                     s.prop_fecha } : IsBlank(prop)

\* _validate_notion_settings: TRUE when it raises.
validate_notion_settings_raises(s) ==
    \/ IsBlank(s.notion_token)
    \/ \E prop \in { s.prop_title, s.prop_area, s.prop_tipo, s.prop_estado,
                     s.prop_fecha, s.prop_prioridad } : IsBlank(prop)

\* The local checks at the head of sync_pending: TRUE when one of them raises.
config_raises(s) ==
    \/ IsBlank(s.notion_database_id)
    \/ IsBlank(s.notion_token)
    \/ validate_notion_settings_raises(s)

ExpectedTypes(s) ==
    { <<s.prop_title, "title">>, <<s.prop_area, "select">>,
      <<s.prop_tipo, "select">>, <<s.prop_estado, "select">>,
      <<s.prop_fecha, "date">>, <<s.prop_prioridad, "select">> }

\* Mutant of validate_database_schema: presence checked, the type not.
validate_database_schema_untyped(resp, s) ==
    /\ resp.kind = "json"
    /\ \A e \in ExpectedTypes(s) : e[1] \in DOMAIN resp.props

\* NotionClient.validate_database_schema: the ok flag of its answer.  A body
\* that is no JSON makes resp.json() raise, which ends the pass as well.
validate_database_schema(resp, s) ==
    /\ resp.kind = "json"
    /\ \A e \in ExpectedTypes(s) :
          /\ e[1] \in DOMAIN resp.props
          /\ resp.props[e[1]] = e[2]

\* [line.strip() for line in note.acciones.splitlines() if line.strip()],
\* under the guard note.acciones.strip()
ActionLines(acciones) ==
    IF Strip(acciones) = <<>> THEN <<>> ELSE StripNonEmpty(SplitLines(acciones))

SyncStart(w) ==
    /\ pc[w] = "idle"
    /\ IF config_raises(settings)
       THEN /\ pc' = [pc EXCEPT ![w] = "done"]
            /\ obs' = [obs EXCEPT ![w] = [NoObs EXCEPT !.result = "config_error"]]
            /\ loc' = [loc EXCEPT ![w] = IdleLoc]
       ELSE /\ pc' = [pc EXCEPT ![w] = "schema"]
            /\ obs' = [obs EXCEPT ![w] = [NoObs EXCEPT !.result = "running"]]
            /\ loc' = [loc EXCEPT ![w] = [IdleLoc EXCEPT !.settings = Some(settings)]]
    /\ UNCHANGED <<masters, mop, boots, notes, actions, settings, clock, ret, calls, pages, tasks>>

ValidateSchema(w, resp) ==
    /\ pc[w] = "schema"
    /\ LET ok == validate_database_schema(resp, loc[w].settings[1])
       IN  /\ pc' = [pc EXCEPT ![w] = IF ok THEN "select" ELSE "done"]
           /\ obs' = [obs EXCEPT ![w].net = @ + 1,
                                 ![w].schema = Some(resp),
                                 ![w].result = IF ok THEN @ ELSE "schema_error"]
    /\ UNCHANGED <<masters, mop, boots, notes, actions, settings, clock, ret, calls, loc, pages, tasks>>

\* After the loop, or with nothing selected: return (sent, failed).
NextPc(w, idx) == IF idx > Len(loc[w].queue) THEN "done" ELSE "create"

Select(w) ==
    /\ pc[w] = "select"
    /\ LET queue == list_retryable(clock)
       IN  /\ loc' = [loc EXCEPT ![w].queue = queue, ![w].idx = 1]
           /\ pc' = [pc EXCEPT ![w] = IF queue = <<>> THEN "done" ELSE "create"]
           /\ obs' = [obs EXCEPT ![w].result = IF queue = <<>> THEN "ok" ELSE @]
    /\ UNCHANGED <<masters, mop, boots, notes, actions, settings, clock, ret, calls, pages, tasks>>

\* Mutant of create_page: a note whose record exists gets no second one.
CreatePageOnce(w, ok, msg) ==
    /\ pc[w] = "create"
    /\ ok \/ notes[loc[w].queue[loc[w].idx]].attempts < MaxFailures
    /\ LET n == loc[w].queue[loc[w].idx]
           lines == ActionLines(notes[n].acciones)
           made == IF pages[n] >= 1 THEN pages[n] ELSE pages[n] + 1
       IN  IF ok
           THEN /\ pages' = [pages EXCEPT ![n] = made]
                /\ loc' = [loc EXCEPT ![w].page_id = Some(<<n, made>>),
                                      ![w].lines = lines, ![w].li = 1]
                /\ pc' = [pc EXCEPT ![w] = IF lines = <<>> THEN "mark_sent" ELSE "task"]
                /\ obs' = [obs EXCEPT ![w].net = @ + 1, ![w].creates = @ + 1,
                                      ![w].tried = Append(@, n),
                                      ![w].task_tried = <<>>,
                                      ![w].task_failed = FALSE]
           ELSE /\ pages' = pages
                /\ loc' = [loc EXCEPT ![w].exc = Some(msg), ![w].failed = @ + 1]
                /\ pc' = [pc EXCEPT ![w] = "mark_error"]
                /\ obs' = [obs EXCEPT ![w].net = @ + 1, ![w].creates = @ + 1,
                                      ![w].tried = Append(@, n),
                                      ![w].task_tried = <<>>,
                                      ![w].task_failed = FALSE]
    /\ UNCHANGED <<masters, mop, boots, notes, actions, settings, clock, ret, calls, tasks>>

\* The remote refuses a note's record a bounded number of times.
CreatePage(w, ok, msg) ==
    /\ pc[w] = "create"
    /\ ok \/ notes[loc[w].queue[loc[w].idx]].attempts < MaxFailures
    /\ LET n == loc[w].queue[loc[w].idx]
           lines == ActionLines(notes[n].acciones)
       IN  IF ok
           THEN /\ pages' = [pages EXCEPT ![n] = @ + 1]
                /\ loc' = [loc EXCEPT ![w].page_id = Some(<<n, pages[n] + 1>>),
                                      ![w].lines = lines, ![w].li = 1]
                /\ pc' = [pc EXCEPT ![w] = IF lines = <<>> THEN "mark_sent" ELSE "task"]
                /\ obs' = [obs EXCEPT ![w].net = @ + 1, ![w].creates = @ + 1,
                                      ![w].tried = Append(@, n),
                                      ![w].task_tried = <<>>,
                                      ![w].task_failed = FALSE]
           ELSE /\ pages' = pages
                /\ loc' = [loc EXCEPT ![w].exc = Some(msg), ![w].failed = @ + 1]
                /\ pc' = [pc EXCEPT ![w] = "mark_error"]
                /\ obs' = [obs EXCEPT ![w].net = @ + 1, ![w].creates = @ + 1,
                                      ![w].tried = Append(@, n),
                                      ![w].task_tried = <<>>,
                                      ![w].task_failed = FALSE]
    /\ UNCHANGED <<masters, mop, boots, notes, actions, settings, clock, ret, calls, tasks>>

\* Mutant of the inner loop: no try/except around create_task_from_action,
\* so its exception reaches the note's own handler.
CreateTaskUncaught(w, ok) ==
    /\ pc[w] = "task"
    /\ LET n == loc[w].queue[loc[w].idx]
           line == loc[w].lines[loc[w].li]
           last == loc[w].li = Len(loc[w].lines)
       IN  /\ tasks' = IF ok THEN [tasks EXCEPT ![n] = @ + 1] ELSE tasks
           /\ loc' = IF ok THEN [loc EXCEPT ![w].li = @ + 1]
                     ELSE [loc EXCEPT ![w].exc = Some(<<"e">>), ![w].failed = @ + 1]
           /\ pc' = [pc EXCEPT ![w] = IF ~ok THEN "mark_error"
                                      ELSE IF last THEN "mark_sent" ELSE "task"]
           /\ obs' = [obs EXCEPT ![w].net = @ + 1,
                                 ![w].task_tried = Append(@, line),
                                 ![w].task_failed = @ \/ ~ok]
    /\ UNCHANGED <<masters, mop, boots, notes, actions, settings, clock, ret, calls, pages>>

\* Mutant of the inner loop: a failed sub-record ends the loop.
CreateTaskStopsOnFailure(w, ok) ==
    /\ pc[w] = "task"
    /\ LET n == loc[w].queue[loc[w].idx]
           line == loc[w].lines[loc[w].li]
           last == loc[w].li = Len(loc[w].lines)
       IN  /\ tasks' = IF ok THEN [tasks EXCEPT ![n] = @ + 1] ELSE tasks
           /\ loc' = [loc EXCEPT ![w].li = @ + 1]
           /\ pc' = [pc EXCEPT ![w] = IF last \/ ~ok THEN "mark_sent" ELSE "task"]
           /\ obs' = [obs EXCEPT ![w].net = @ + 1,
                                 ![w].task_tried = Append(@, line),
                                 ![w].task_failed = @ \/ ~ok]
    /\ UNCHANGED <<masters, mop, boots, notes, actions, settings, clock, ret, calls, pages>>

\* One iteration of the inner loop; an exception is caught and logged.
CreateTask(w, ok) ==
    /\ pc[w] = "task"
    /\ LET n == loc[w].queue[loc[w].idx]
           line == loc[w].lines[loc[w].li]
           last == loc[w].li = Len(loc[w].lines)
       IN  /\ tasks' = IF ok THEN [tasks EXCEPT ![n] = @ + 1] ELSE tasks
           /\ loc' = [loc EXCEPT ![w].li = @ + 1]
           /\ pc' = [pc EXCEPT ![w] = IF last THEN "mark_sent" ELSE "task"]
           /\ obs' = [obs EXCEPT ![w].net = @ + 1,
                                 ![w].task_tried = Append(@, line),
                                 ![w].task_failed = @ \/ ~ok]
    /\ UNCHANGED <<masters, mop, boots, notes, actions, settings, clock, ret, calls, pages>>

MarkSent(w) ==
    /\ pc[w] = "mark_sent"
    /\ LET n == loc[w].queue[loc[w].idx]
       IN  /\ notes' = mark_sent(n, loc[w].page_id[1])
           /\ loc' = [loc EXCEPT ![w].sent = @ + 1, ![w].idx = @ + 1,
                                 ![w].page_id = NULL, ![w].lines = <<>>, ![w].li = 0]
           /\ pc' = [pc EXCEPT ![w] = NextPc(w, loc[w].idx + 1)]
           /\ obs' = [obs EXCEPT ![w].writes = @ + 1, ![w].marked_sent = @ + 1,
                                 ![w].result = IF NextPc(w, loc[w].idx + 1) = "done"
                                               THEN "ok" ELSE @]
    /\ UNCHANGED <<masters, mop, boots, actions, settings, clock, ret, calls, pages, tasks>>

\* mark_error, first statement: SELECT attempts
MarkErrorRead(w) ==
    /\ pc[w] = "mark_error"
    /\ LET n == loc[w].queue[loc[w].idx]
       IN  loc' = [loc EXCEPT ![w].attempts = Some(notes[n].attempts)]
    /\ pc' = [pc EXCEPT ![w] = "mark_error_update"]
    /\ UNCHANGED <<masters, mop, boots, notes, actions, settings, clock, ret, calls, obs, pages, tasks>>

\* Mutant of the note's handler: the failure ends the loop.
MarkErrorUpdateBreaks(w) ==
    /\ pc[w] = "mark_error_update"
    /\ LET n == loc[w].queue[loc[w].idx]
       IN  /\ notes' = mark_error_update(n, loc[w].attempts[1], loc[w].exc[1],
                           loc[w].settings[1].retry_delay_seconds)
           /\ loc' = [loc EXCEPT ![w].idx = @ + 1, ![w].exc = NULL,
                                 ![w].attempts = NULL]
           /\ pc' = [pc EXCEPT ![w] = "done"]
           /\ obs' = [obs EXCEPT ![w].writes = @ + 1, ![w].marked_error = @ + 1,
                                 ![w].result = "ok"]
    /\ UNCHANGED <<masters, mop, boots, actions, settings, clock, ret, calls, pages, tasks>>

\* mark_error, second statement: utcnow() and the UPDATE
MarkErrorUpdate(w) ==
    /\ pc[w] = "mark_error_update"
    /\ LET n == loc[w].queue[loc[w].idx]
       IN  /\ notes' = mark_error_update(n, loc[w].attempts[1], loc[w].exc[1],
                           loc[w].settings[1].retry_delay_seconds)
           /\ loc' = [loc EXCEPT ![w].idx = @ + 1, ![w].exc = NULL,
                                 ![w].attempts = NULL]
           /\ pc' = [pc EXCEPT ![w] = NextPc(w, loc[w].idx + 1)]
           /\ obs' = [obs EXCEPT ![w].writes = @ + 1, ![w].marked_error = @ + 1,
                                 ![w].result = IF NextPc(w, loc[w].idx + 1) = "done"
                                               THEN "ok" ELSE @]
    /\ UNCHANGED <<masters, mop, boots, actions, settings, clock, ret, calls, pages, tasks>>

\* The thread of _sync_worker ends; its slot is free for the next _sync.
Finish(w) ==
    /\ pc[w] = "done"
    /\ pc' = [pc EXCEPT ![w] = "idle"]
    /\ loc' = [loc EXCEPT ![w] = IdleLoc]
    /\ obs' = [obs EXCEPT ![w] = NoObs]
    /\ UNCHANGED <<masters, mop, boots, notes, actions, settings, clock, ret, calls, pages, tasks>>

SyncStep(w) ==
    \/ \E resp \in SchemaResponses : ValidateSchema(w, resp)
    \/ Select(w)
    \/ \E ok \in BOOLEAN, msg \in { <<"e">> } : CreatePage(w, ok, msg)
    \/ \E ok \in BOOLEAN : CreateTask(w, ok)
    \/ MarkSent(w)
    \/ MarkErrorRead(w)
    \/ MarkErrorUpdate(w)
    \/ Finish(w)

\* ------------------------------------------------------- master governance
PROP_PREFIX == <<"p","r","o","p","_">>

\* NoteService.MASTER_TO_NOTION_PROP
MASTER_TO_NOTION_PROP ==
    [ Area |-> <<"p","r","o","p","_","a","r","e","a">>,
      Tipo |-> <<"p","r","o","p","_","t","i","p","o">>,
      Prioridad |-> <<"p","r","o","p","_","p","r","i","o","r","i","d","a","d">>,
      Origen |-> <<"O","r","i","g","e","n">> ]

\* getattr(settings, key) for the keys of MASTER_TO_NOTION_PROP
SettingsAttr(s, key) ==
    CASE key = MASTER_TO_NOTION_PROP["Area"] -> s.prop_area
      [] key = MASTER_TO_NOTION_PROP["Tipo"] -> s.prop_tipo
      [] key = MASTER_TO_NOTION_PROP["Prioridad"] -> s.prop_prioridad

\* _resolve_notion_property_name: NULL for None
resolve_notion_property_name(category, s) ==
    IF category \notin DOMAIN MASTER_TO_NOTION_PROP THEN NULL
    ELSE LET key == MASTER_TO_NOTION_PROP[category]
         IN  IF StartsWith(key, PROP_PREFIX) THEN Some(SettingsAttr(s, key))
             ELSE Some(key)

\* Mutant of the credentials test of deactivate_master: the token alone.
credentials_missing_token_only(s) == IsBlank(s.notion_token)

\* not settings.notion_database_id.strip() or not settings.notion_token.strip()
credentials_missing(s) ==
    IsBlank(s.notion_database_id) \/ IsBlank(s.notion_token)

\* count_open_pages_for_master: the results of every page, added up.
RECURSIVE count_open_pages(_)
count_open_pages(results) ==
    IF results = <<>> THEN 0 ELSE Head(results) + count_open_pages(Tail(results))

\* if open_count > 0: raise ValueError
blocks_deactivation(open_count) == open_count > 0

\* The foreground thread runs one registry operation at a time.
MasterIdle == mop.result # "running"

AddMaster(category, value) ==
    /\ MasterIdle
    /\ IF Strip(value) = <<>>
       THEN /\ masters' = masters
            /\ mop' = [NoMop EXCEPT !.op = "add_master", !.category = category,
                                    !.value = value, !.result = "value_error"]
       ELSE /\ masters' = add_master(masters, category, value)
            /\ mop' = [NoMop EXCEPT !.op = "add_master", !.category = category,
                                    !.value = value, !.result = "ok",
                                    !.changed = (masters' # masters)]
    /\ UNCHANGED <<notes, actions, settings, clock, pc, loc, obs, pages, tasks,
                   ret, calls, boots>>

\* Mutant of deactivate_master: the row is updated before the remote answers.
DeactivateMasterEager(category, value) ==
    /\ MasterIdle
    /\ LET started == [NoMop EXCEPT !.op = "deactivate_master",
                                    !.category = category, !.value = value]
       IN  /\ masters' = deactivate_master(masters, category, value)
           /\ mop' = [started EXCEPT !.result = "running",
                                     !.changed = (masters' # masters)]
    /\ UNCHANGED <<notes, actions, settings, clock, pc, loc, obs, pages, tasks,
                   ret, calls, boots>>

\* NoteService.deactivate_master up to the remote query: the lock check, the
\* settings load, the credentials test and the property name.
DeactivateMaster(category, value) ==
    /\ MasterIdle
    /\ LET started == [NoMop EXCEPT !.op = "deactivate_master",
                                    !.category = category, !.value = value]
           notion_property == resolve_notion_property_name(category, settings)
       IN  IF is_locked(masters, category, value)
           THEN /\ masters' = masters
                /\ mop' = [started EXCEPT !.result = "locked_error"]
           ELSE IF \/ credentials_missing(settings)
                   \/ notion_property = NULL
                   \/ notion_property[1] = <<>>
           THEN /\ masters' = deactivate_master(masters, category, value)
                /\ mop' = [started EXCEPT !.result = "ok",
                                          !.changed = (masters' # masters)]
           ELSE /\ masters' = masters
                /\ mop' = [started EXCEPT !.result = "running"]
    /\ UNCHANGED <<notes, actions, settings, clock, pc, loc, obs, pages, tasks,
                   ret, calls, boots>>

\* The remote answers the open-record query; deactivate_master ends.
DeactivateAnswer(resp) ==
    /\ mop.op = "deactivate_master"
    /\ mop.result = "running"
    /\ IF resp.kind # "json"
       THEN /\ masters' = masters
            /\ mop' = [mop EXCEPT !.result = "remote_error", !.net = @ + 1]
       ELSE LET open_count == count_open_pages(resp.pages)
            IN  IF blocks_deactivation(open_count)
                THEN /\ masters' = masters
                     /\ mop' = [mop EXCEPT !.result = "open_error",
                                           !.net = @ + Len(resp.pages),
                                           !.count = Some(open_count)]
                ELSE /\ masters' = deactivate_master(masters, mop.category, mop.value)
                     /\ mop' = [mop EXCEPT !.result = "ok",
                                           !.net = @ + Len(resp.pages),
                                           !.count = Some(open_count),
                                           !.changed = (masters' # masters)]
    /\ UNCHANGED <<notes, actions, settings, clock, pc, loc, obs, pages, tasks,
                   ret, calls, boots>>

\* The legacy wrapper deactivate_value, called on the repository with the id
\* of a row.
DeactivateValue(id) ==
    /\ MasterIdle
    /\ masters' = deactivate_value(masters, id)
    /\ mop' = [NoMop EXCEPT !.op = "deactivate_value", !.result = "ok",
                            !.changed = (masters' # masters)]
    /\ UNCHANGED <<notes, actions, settings, clock, pc, loc, obs, pages, tasks,
                   ret, calls, boots>>

\* A NoteService is constructed on the store: ensure_default_values runs.
EnsureDefaults ==
    /\ masters' = ensure_default_values(masters)
    /\ mop' = [NoMop EXCEPT !.op = "ensure_default_values", !.result = "ok",
                            !.changed = (masters' # masters)]
    /\ UNCHANGED <<notes, actions, settings, clock, pc, loc, obs, pages, tasks,
                   ret, calls, boots>>

\* The process stops where it is, its daemon threads with it, and is started
\* again on the same store: what is committed stays, main() seeds the registry.
Crash ==
    /\ Len(boots) < MaxBoots
    /\ LET lost == { loc[w].queue[loc[w].idx] :
                        w \in { v \in Workers : pc[v] \in {"task", "mark_sent"} } }
       IN  boots' = Append(boots, [n \in lost |-> notes[n]])
    /\ pc' = [w \in Workers |-> "idle"]
    /\ loc' = [w \in Workers |-> IdleLoc]
    /\ obs' = [w \in Workers |-> NoObs]
    /\ masters' = ensure_default_values(masters)
    /\ mop' = [NoMop EXCEPT !.op = "ensure_default_values", !.result = "ok",
                            !.changed = (masters' # masters)]
    /\ UNCHANGED <<notes, actions, settings, clock, pages, tasks, ret, calls>>

\* MainWindow._sync starts a thread whatever the other threads are doing:
\* any free slot of ws may start a pass while the others run.
NextOver(ws, reqs, choices) ==
    \/ \E req \in reqs, acciones \in Enrichments : CreateNote(req, acciones)
    \/ \E s \in choices : SaveSettings(s)
    \/ Tick
    \/ \E w \in ws : SyncStart(w)
    \/ \E w \in ws : SyncStep(w)

\* The program: two sync threads, one captured text.
Spec == Init /\ [][NextOver(Workers, RequestsA, SettingsMain)]_vars

\* Passes one at a time (a single thread slot), both captured texts.
SpecSerial == Init /\ [][NextOver({1}, Requests, SettingsMain)]_vars

\* Passes one at a time, every settings choice.
SpecConfig == Init /\ [][NextOver({1}, RequestsA, SettingsChoices)]_vars

\* Passes one at a time, one captured text, the attempt limit set to one.
SpecAttempts ==
    Init /\ [][NextOver({1}, RequestsA,
                        {[ConfiguredSettings(1) EXCEPT !.max_attempts = 1]})]_vars

\* Passes one at a time, one captured text whose enrichment holds two actions
\* or one action of two lines (a description with a line break in it), any of
\* the action inserts failing.
SpecSubRecords ==
    Init /\ [][ \/ \E req \in RequestsA :
                      \E acciones \in { << <<"x">>, <<"y">> >>, << <<"x", "\n", "y">> >> } :
                         \E fails \in ActionFailures(acciones) :
                            CreateNoteWith(req, Processed(acciones), fails)
                \/ \E s \in SettingsMain : SaveSettings(s)
                \/ Tick
                \/ SyncStart(1)
                \/ SyncStep(1) ]_vars

\* Passes one at a time, one captured text, the process stopped and restarted.
SpecCrash == Init /\ [][NextOver({1}, RequestsA, SettingsMain) \/ Crash]_vars

\* Passes one at a time that keep being run: the sync button is pressed again
\* whenever no pass runs, a running thread takes its next step, every remote
\* call returns, and time passes.
SpecLive ==
    /\ Init
    /\ [][NextOver({1}, RequestsA, SettingsMain)]_vars
    /\ WF_vars(SyncStart(1))
    /\ WF_vars(SyncStep(1))
    /\ WF_vars(Tick)

\* The master registry behind NoteService.
\* normalize_text on its own: a text of at most MaxLen characters is
\* normalized for a source, and the result is normalized again.
NormalizerAlphabet == {"a", " ", "\t", "\r", "\n", "\f"}

NormalizerSources == {MANUAL, <<"w", "e", "b">>, EMAIL_PASTED}

InitNormalize ==
    /\ notes = <<>>
    /\ actions = <<>>
    /\ settings = DefaultSettings
    /\ clock = 0
    /\ pc = [w \in Workers |-> "idle"]
    /\ loc = [w \in Workers |-> IdleLoc]
    /\ obs = [w \in Workers |-> NoObs]
    /\ pages = <<>>
    /\ tasks = <<>>
    /\ \E k \in 0..MaxLen : \E text \in [1..k -> NormalizerAlphabet] :
          ret = [op |-> "text", arg |-> text, source |-> <<>>, val |-> <<>>]
    /\ calls = 0
    /\ masters = ensure_default_values(<<>>)
    /\ mop = NoMop
    /\ boots = <<>>

NormalizeOnce(source) ==
    /\ ret.op = "text"
    /\ ret' = [op |-> "normalize_text", arg |-> ret.arg, source |-> source,
               val |-> normalize_text(ret.arg, source)]
    /\ UNCHANGED <<notes, actions, settings, clock, pc, loc, obs, pages, tasks,
                   calls, masters, mop, boots>>

NormalizeAgain ==
    /\ ret.op = "normalize_text"
    /\ ret' = [op |-> "normalize_again", arg |-> ret.val, source |-> ret.source,
               val |-> normalize_text(ret.val, ret.source)]
    /\ UNCHANGED <<notes, actions, settings, clock, pc, loc, obs, pages, tasks,
                   calls, masters, mop, boots>>

SpecNormalize ==
    InitNormalize /\ [][ \/ \E source \in NormalizerSources : NormalizeOnce(source)
                         \/ NormalizeAgain ]_vars

\* Capture and completion of actions, on the desktop thread.
NextActions ==
    \/ \E req \in RequestsActions, upstream \in UpstreamResponses :
          \E fails \in ActionFailures(
                 process_text(normalize_text(req.raw_text, req.source),
                              upstream).acciones) :
             CreateNoteUpstream(req, upstream, fails)
    \/ \E a \in 1..(Len(actions) + 1) : MarkActionDone(a)
    \/ \E ok \in BOOLEAN : MarkActionAnswer(ok)
    \/ \E a \in 1..Len(actions) : SetNotionPageId(a, TaskPage)
    \/ \E s \in {DefaultSettings, ConfiguredSettings(1)} : SaveSettings(s)

SpecActions == Init /\ [][NextActions]_vars

NextMasters ==
    \/ \E mv \in MasterInputs : AddMaster(mv[1], mv[2])
    \/ \E mv \in MasterInputs : DeactivateMaster(mv[1], mv[2])
    \/ \E resp \in CountResponses : DeactivateAnswer(resp)
    \/ EnsureDefaults
    \/ \E s \in MasterSettings : SaveSettings(s)

SpecMasters == Init /\ [][NextMasters]_vars

\* The pure functions on their own.  _normalize_actions: the decoded acciones
\* value is a scalar or a list of at most MaxItems elements, and it is
\* normalized once.  compute_source_id: the ids of two captures, given by
\* normalized text and source, are computed.  normalize_text for a pasted
\* email: a text of at most MaxLines lines is normalized, and the result is
\* normalized again.
ActionElements ==
    { JStr(<<"x">>), JStr(<<"x", "\n", "-", " ", "y">>), JStr(<<>>),
      JVal("num", <<"7">>, <<>>, <<>>), JNull,
      JObj(<< [key |-> "descripcion", value |-> JStr(<<" ", "x", " ">>)],
              [key |-> "subtareas",
               value |-> JList(<< JStr(<<"y">>), JStr(<<>>) >>)] >>),
      JObj(<<>>) }

ActionValues ==
    { v \in ActionElements : v.type # "object" }
    \cup { JList(items) : items \in UNION { [1..k -> ActionElements] : k \in 0..MaxItems } }

\* Captures as create_note hashes them: a normalized text and a source, the
\* source any string the caller passes.
Captures ==
    [ text : { <<"a">>, <<"a", "b">>, <<"a", "|", "|", "b">> },
      source : { <<"c">>, <<"b", "c">>, <<"b", "|", "|", "c">> } ]

\* Lines of a pasted email: content, a signature marker, an empty line.
EmailLines == { <<"a">>, <<" ", "a">>, <<"-", "-">>, <<>> }

InitFunctions ==
    /\ notes = <<>>
    /\ actions = <<>>
    /\ settings = DefaultSettings
    /\ clock = 0
    /\ pc = [w \in Workers |-> "idle"]
    /\ loc = [w \in Workers |-> IdleLoc]
    /\ obs = [w \in Workers |-> NoObs]
    /\ pages = <<>>
    /\ tasks = <<>>
    /\ \/ \E v \in ActionValues :
             ret = [op |-> "acciones", arg |-> v, source |-> <<>>, val |-> <<>>]
       \/ \E a \in Captures, b \in Captures :
             ret = [op |-> "captures", arg |-> <<a, b>>, source |-> <<>>, val |-> <<>>]
       \/ \E k \in 0..MaxLines : \E lines \in [1..k -> EmailLines] :
             ret = [op |-> "text", arg |-> Join(lines, "\n"), source |-> <<>>,
                    val |-> <<>>]
    /\ calls = 0
    /\ masters = ensure_default_values(<<>>)
    /\ mop = NoMop
    /\ boots = <<>>

NormalizeActionsOnce ==
    /\ ret.op = "acciones"
    /\ ret' = [op |-> "normalize_actions", arg |-> ret.arg, source |-> <<>>,
               val |-> normalize_actions(ret.arg)]
    /\ UNCHANGED <<notes, actions, settings, clock, pc, loc, obs, pages, tasks,
                   calls, masters, mop, boots>>

ComputeSourceIds ==
    /\ ret.op = "captures"
    /\ ret' = [op |-> "compute_source_id", arg |-> ret.arg, source |-> <<>>,
               val |-> [i \in 1..2 |->
                           compute_source_id(ret.arg[i].text, ret.arg[i].source)]]
    /\ UNCHANGED <<notes, actions, settings, clock, pc, loc, obs, pages, tasks,
                   calls, masters, mop, boots>>

SpecFunctions ==
    InitFunctions /\ [][ \/ NormalizeActionsOnce
                         \/ ComputeSourceIds
                         \/ NormalizeOnce(EMAIL_PASTED)
                         \/ NormalizeAgain ]_vars

\* The mutating operations of MastersRepository, the legacy wrappers among
\* them, on a store whose settings hold no credentials: add_master (add_value
\* passes its arguments on to it), deactivate_master behind the lock check of
\* the service, deactivate_value and ensure_default_values.
SpecLegacy ==
    Init /\ [][ \/ \E mv \in MasterInputs : AddMaster(mv[1], mv[2])
                \/ \E mv \in MasterInputs : DeactivateMaster(mv[1], mv[2])
                \/ \E id \in UNION { RowsOf(masters, mv[1], mv[2]) : mv \in MasterInputs } :
                      DeactivateValue(id)
                \/ EnsureDefaults ]_vars

\* The settings dialog saving on the foreground thread while a sync pass
\* started from the same window loads the settings on its worker thread.
SpecSettings ==
    Init /\ [][ \/ \E s \in SettingsSaved : SaveStatement(s)
                \/ SyncStart(1)
                \/ \E resp \in SchemaResponses : ValidateSchema(1, resp)
                \/ Select(1)
                \/ Finish(1) ]_vars

\* ================================================================= claims
InFlight(w) == pc[w] \notin {"idle", "done"}

Current(w) == loc[w].queue[loc[w].idx]

Ids == 1..Len(notes)

\* C1: with passes run one at a time, the main record of a note is created
\* at most once: a created record belongs to a note that is sent or is being
\* marked sent by the pass that created it, and a pass never attempts a note
\* that is already sent.
C1_CreatedAtMostOnce ==
    /\ \A n \in Ids :
          /\ pages[n] <= 1
          /\ notes[n].status = SENT => pages[n] = 1
          /\ pages[n] = 1 =>
                \/ notes[n].status = SENT
                \/ \E w \in Workers : pc[w] \in {"task", "mark_sent"} /\ Current(w) = n
    /\ \A w \in Workers :
          pc[w] = "create" =>
             \A i \in loc[w].idx..Len(loc[w].queue) :
                notes[loc[w].queue[i]].status # SENT

\* A later pass runs on note 2 alone, note 1 having been sent before.
C1_Witness ==
    /\ Len(notes) = 2
    /\ notes[1].status = SENT
    /\ pages[1] = 1
    /\ pc[1] = "create"
    /\ loc[1].queue = <<2>>

C3_OnePassAtATime == Cardinality({w \in Workers : InFlight(w)}) <= 1

\* C4: once a note is sent, its status and its remote id never change.
C4_SentIsTerminal ==
    [][ \A n \in Ids :
          notes[n].status = SENT =>
             /\ notes'[n].status = SENT
             /\ notes'[n].notion_page_id = notes[n].notion_page_id ]_vars

InQueue(n, queue) == \E i \in 1..Len(queue) : queue[i] = n

IsPrefix(a, b) == Len(a) <= Len(b) /\ SubSeq(b, 1, Len(a)) = a

SchemaMismatch(resp) ==
    \/ resp.kind # "json"
    \/ \E p \in DOMAIN GoodProps :
          p \notin DOMAIN resp.props \/ resp.props[p] # GoodProps[p]

\* C8: a pass whose schema check met an unreadable or mismatching schema has
\* raised: it selected nothing, made no create call and wrote no note row.
C8_SchemaFailureTouchesNothing ==
    \A w \in Workers :
       (obs[w].schema # NULL /\ SchemaMismatch(obs[w].schema[1])) =>
          /\ pc[w] = "done"
          /\ obs[w].result = "schema_error"
          /\ loc[w].queue = <<>>
          /\ obs[w].creates = 0
          /\ obs[w].writes = 0
          /\ obs[w].net = 1

\* A pass stopped on a property of the wrong type while a note was pending.
C8_Witness ==
    \E w \in Workers :
       /\ obs[w].schema # NULL
       /\ obs[w].schema[1].kind = "json"
       /\ PROP_ESTADO \in DOMAIN obs[w].schema[1].props
       /\ obs[w].schema[1].props[PROP_ESTADO] = "status"
       /\ obs[w].result = "schema_error"
       /\ Len(notes) = 1
       /\ notes[1].status = PENDING

Incomplete(s) == \E f \in CheckedFields : Strip(s[f]) = <<>>

\* C9: a pass started on settings with an empty or blank database id, token or
\* property name ends at once with a configuration error, with no network
\* call made and no note changed; on complete settings it goes on to the
\* schema check.
C9_ConfigFailsFast ==
    /\ [][ \A w \in Workers :
             (pc[w] = "idle" /\ pc'[w] # "idle") =>
                IF Incomplete(settings)
                THEN /\ pc'[w] = "done"
                     /\ obs'[w].result = "config_error"
                     /\ obs'[w].net = 0
                     /\ notes' = notes
                     /\ pages' = pages
                ELSE pc'[w] = "schema" ]_vars
    /\ [](\A w \in Workers :
             obs[w].result = "config_error" =>
                /\ pc[w] = "done"
                /\ obs[w].net = 0
                /\ obs[w].writes = 0)

\* A pass refused a blank prop_prioridad while a note was pending.
C9_Witness ==
    /\ pc[1] = "done"
    /\ obs[1].result = "config_error"
    /\ settings.prop_prioridad = <<" ">>
    /\ Len(notes) = 1
    /\ notes[1].status = PENDING

\* C10: when a sub-record of a note failed, every action line of the note was
\* still attempted, the failure never reaches the note's error handler, and
\* the note is marked sent with the id of its own record, counted as sent and
\* not as failed, with attempts unchanged.
C10_TaskFailureKeepsNoteSent ==
    /\ [][ \A w \in Workers :
             (pc[w] = "mark_sent" /\ pc'[w] # "mark_sent" /\ obs[w].task_failed) =>
                LET n == Current(w)
                IN  /\ notes'[n].status = SENT
                    /\ notes'[n].notion_page_id = loc[w].page_id
                    /\ notes'[n].attempts = notes[n].attempts
                    /\ loc'[w].sent = loc[w].sent + 1
                    /\ loc'[w].failed = loc[w].failed
                    /\ obs[w].task_tried = ActionLines(notes[n].acciones) ]_vars
    /\ [](\A w \in Workers :
             obs[w].task_failed =>
                /\ pc[w] \in {"task", "mark_sent", "create", "done"}
                /\ pc[w] \in {"create", "done"} => loc[w].sent >= 1)

\* The first sub-record failed, the second was created, the note is sent.
C10_Witness ==
    \E w \in Workers :
       /\ pc[w] = "done"
       /\ obs[w].task_failed
       /\ obs[w].task_tried = << <<"x">>, <<"y">> >>
       /\ tasks[1] = 1
       /\ notes[1].status = SENT
       /\ loc[w].sent = 1
       /\ loc[w].failed = 0

\* Notes whose remote record a stop of the process left unrecorded and whose
\* row no pass has written since.
Orphans ==
    { n \in Ids : \E k \in 1..Len(boots) :
                     n \in DOMAIN boots[k] /\ notes[n] = boots[k][n] }

\* C11: when the process stops after the remote create of a note succeeded and
\* before mark_sent is committed, the note stays pending or error with no
\* remote id; the next pass selects it, and its create, succeeding, adds a
\* second remote record for the same note.
C11_CrashDuplicates ==
    /\ [][ Len(boots') > Len(boots) =>
             \A w \in Workers :
                pc[w] \in {"task", "mark_sent"} =>
                   /\ Current(w) \in DOMAIN boots'[Len(boots')]
                   /\ notes'[Current(w)].status \in {PENDING, ERROR}
                   /\ notes'[Current(w)].notion_page_id = NULL
                   /\ pages'[Current(w)] >= 1 ]_vars
    /\ [][ \A w \in Workers :
             (pc[w] = "select" /\ pc'[w] \in {"create", "done"}) =>
                \A n \in Orphans : InQueue(n, loc'[w].queue) ]_vars
    /\ [][ \A w \in Workers :
             (pc[w] = "create" /\ pc'[w] \in {"task", "mark_sent"}
                 /\ Current(w) \in Orphans) =>
                /\ pages'[Current(w)] = pages[Current(w)] + 1
                /\ pages'[Current(w)] >= 2 ]_vars

\* The pass after the stop sent the note again: two remote records, one note.
C11_Witness ==
    /\ Len(boots) = 1
    /\ 1 \in DOMAIN boots[1]
    /\ boots[1][1].status = ERROR
    /\ pages[1] = 2
    /\ notes[1].status = SENT
    /\ notes[1].notion_page_id = Some(<<1, 2>>)

\* The retry of note n is due after the last instant the clock reaches.
BeyondHorizon(n) ==
    notes[n].next_retry_at # NULL /\ notes[n].next_retry_at[1] > MaxClock

C13_NoteInvariants ==
    /\ [](\A i \in Ids : \A j \in Ids :
             i # j => notes[i].source_id # notes[j].source_id)
    /\ [](\A n \in Ids : notes[n].status \in {PENDING, SENT, ERROR})
    /\ [][ notes' # notes /\ Len(notes') # Len(notes) =>
             /\ Len(notes') = Len(notes) + 1
             /\ SubSeq(notes', 1, Len(notes)) = notes
             /\ notes'[Len(notes')].status = PENDING ]_vars

\* Two notes of different fingerprints, one sent and one in error, after two
\* more captures of the same texts were refused.
C13_Witness ==
    /\ Len(notes) = 2
    /\ notes[1].source_id # notes[2].source_id
    /\ notes[1].status = ERROR
    /\ notes[2].status = SENT
    /\ ret.val = NULL
    /\ ret.arg = notes[2].source_id

\* C14: next_retry_at is set only on notes whose status is error.
C14_RetryOnlyWhileError ==
    \A n \in Ids : notes[n].next_retry_at # NULL => notes[n].status = ERROR

\* A step in which deactivate_master is called (its first step).
DeactivateCalled ==
    /\ mop.result # "running"
    /\ mop' # mop
    /\ mop'.op = "deactivate_master"

\* The row the last registry operation named, as the table holds it.
Target == RowsOf(masters, mop.category, mop.value)

\* C15: deactivate_master on a system-locked value fails with an error and
\* leaves the value active and the table as it was, with no remote call,
\* whatever the credentials in the settings are.
C15_LockedNeverDeactivated ==
    /\ [][ (DeactivateCalled
               /\ \E i \in RowsOf(masters, mop'.category, mop'.value) :
                     masters[i].system_locked) =>
             /\ mop'.result = "locked_error"
             /\ mop'.net = 0
             /\ masters' = masters
             /\ \A i \in RowsOf(masters', mop'.category, mop'.value) :
                   masters'[i].active ]_vars
    /\ [](\A i \in Target :
             (mop.op = "deactivate_master" /\ masters[i].system_locked) =>
                /\ mop.result = "locked_error"
                /\ masters[i].active)

\* The locked seed "Finalizado" was refused with the credentials configured.
C15_Witness ==
    /\ mop.op = "deactivate_master"
    /\ mop.category = "Estado"
    /\ mop.value = Finalizado
    /\ mop.result = "locked_error"
    /\ settings.notion_token = TOKEN
    /\ settings.notion_database_id = DATABASE
    /\ \E i \in Target : masters[i].system_locked /\ masters[i].active

\* C16: deactivate_master checks the lock, then asks the remote, then writes:
\* no open-record query is issued or pending for a locked value, the table is
\* untouched while the query is pending, and a deactivation that asked the
\* remote writes only in the step in which the answer, zero, arrives.
C16_LockThenRemoteThenWrite ==
    /\ [](\A i \in Target :
             (mop.op = "deactivate_master" /\ masters[i].system_locked) =>
                /\ mop.result # "running"
                /\ mop.net = 0
                /\ mop.count = NULL)
    /\ [][ (mop'.op = "deactivate_master" /\ mop'.result = "running") =>
             masters' = masters ]_vars
    /\ [][ (mop'.op = "deactivate_master" /\ masters' # masters) =>
             /\ mop'.result = "ok"
             /\ IF mop.op = "deactivate_master" /\ mop.result = "running"
                THEN mop'.count = Some(0) /\ mop'.net = mop.net + 1
                ELSE mop'.net = 0 /\ mop'.count = NULL ]_vars

\* "General" was deactivated in the step in which the remote answered zero.
C16_Witness ==
    /\ mop.op = "deactivate_master"
    /\ mop.category = "Area"
    /\ mop.value = General
    /\ mop.result = "ok"
    /\ mop.net = 1
    /\ mop.count = Some(0)
    /\ mop.changed
    /\ \E i \in Target : ~masters[i].active

\* A row of the table goes from active to inactive in this step.
Deactivated(i) == masters[i].active /\ ~masters'[i].active

\* C17: for a value that is not locked, with token and database id
\* configured, deactivate_master fails and leaves the value active when the
\* remote reports one or more open records, and sets it inactive only when the
\* remote reports zero.
C17_OpenRecordsBlock ==
    /\ [][ (mop.op = "deactivate_master" /\ mop.result = "running"
               /\ mop'.op = "deactivate_master" /\ mop'.count # NULL
               /\ mop'.count[1] >= 1) =>
             /\ mop'.result = "open_error"
             /\ masters' = masters ]_vars
    /\ [][ \A i \in 1..Len(masters) :
             (Deactivated(i) /\ mop'.op = "deactivate_master"
                 /\ Strip(settings.notion_token) # <<>>
                 /\ Strip(settings.notion_database_id) # <<>>) =>
                mop'.count = Some(0) ]_vars

BlankCredentials ==
    Strip(settings.notion_token) = <<>> \/ Strip(settings.notion_database_id) = <<>>

\* C18: for a value that is not locked, when the token or the database id is
\* blank, deactivate_master sets the value inactive, makes no remote call and
\* returns without error.
C18_NoCredentialsLocalOnly ==
    [][ (DeactivateCalled /\ BlankCredentials
            /\ \A i \in RowsOf(masters, mop'.category, mop'.value) :
                   ~masters[i].system_locked) =>
          /\ mop'.result = "ok"
          /\ mop'.net = 0
          /\ mop'.count = NULL
          /\ Len(masters') = Len(masters)
          /\ \A i \in 1..Len(masters) :
                IF i \in RowsOf(masters, mop'.category, mop'.value)
                THEN masters'[i] = [masters[i] EXCEPT !.active = FALSE]
                ELSE masters'[i] = masters[i] ]_vars

\* "General" was deactivated with a token and a blank database id.
C18_Witness ==
    /\ mop.op = "deactivate_master"
    /\ mop.category = "Area"
    /\ mop.value = General
    /\ mop.result = "ok"
    /\ mop.net = 0
    /\ mop.changed
    /\ settings.notion_token = TOKEN
    /\ settings.notion_database_id = <<" ">>
    /\ \E i \in Target : ~masters[i].active

\* The seed (category, value) pairs.
SeedPairs ==
    UNION { { <<DEFAULT_VALUES[c].category, DEFAULT_VALUES[c].values[k]>> :
                k \in 1..Len(DEFAULT_VALUES[c].values) } :
            c \in 1..Len(DEFAULT_VALUES) }

SeedsPresent(m) ==
    \A p \in SeedPairs :
       /\ Cardinality(RowsOf(m, p[1], p[2])) = 1
       /\ \A i \in RowsOf(m, p[1], p[2]) : m[i].active

\* C19: after ensure_default_values, from any state of the registry, every
\* seed is present exactly once and active, also one deactivated before, and a
\* second call changes nothing.
C19_EnsureDefaultsIdempotent ==
    /\ [](mop.op = "ensure_default_values" =>
             /\ SeedsPresent(masters)
             /\ ensure_default_values(masters) = masters)
    /\ [][ (mop.op = "ensure_default_values" /\ mop'.op = "ensure_default_values") =>
             masters' = masters ]_vars
    /\ [][ mop'.op = "ensure_default_values" =>
             /\ Len(masters') = Len(masters)
             /\ \A i \in 1..Len(masters) :
                   /\ masters'[i].category = masters[i].category
                   /\ masters'[i].value = masters[i].value
                   /\ <<masters[i].category, masters[i].value>> \notin SeedPairs =>
                         masters'[i] = masters[i] ]_vars

\* A call reactivated the seed "General"; the added "Ventas" stayed inactive.
C19_Witness ==
    /\ mop.op = "ensure_default_values"
    /\ mop.changed
    /\ Len(masters) = Cardinality(SeedPairs) + 1
    /\ \E i \in RowsOf(masters, "Area", General) : masters[i].active
    /\ \E i \in RowsOf(masters, "Area", Ventas) : ~masters[i].active

\* C20: no operation of the registry unlocks a locked value.
C20_LockNeverLowered ==
    /\ [][ /\ Len(masters') >= Len(masters)
           /\ \A i \in 1..Len(masters) :
                 masters[i].system_locked =>
                    /\ masters'[i].system_locked
                    /\ masters'[i].category = masters[i].category
                    /\ masters'[i].value = masters[i].value ]_vars
    /\ [](\A p \in SeedPairs :
             p[1] = "Estado" =>
                \E i \in RowsOf(masters, p[1], p[2]) : masters[i].system_locked)

\* add_master was called on the locked seed "Finalizado", which stays locked.
C20_Witness ==
    /\ mop.op = "add_master"
    /\ mop.category = "Estado"
    /\ mop.value = Finalizado
    /\ mop.result = "ok"
    /\ \E i \in Target : masters[i].system_locked /\ masters[i].active

\* C21: every master value of the category "Estado" is system-locked.
C21_EstadoAlwaysLocked ==
    \A i \in 1..Len(masters) :
       masters[i].category = "Estado" => masters[i].system_locked

\* A step in which add_master is called.
AddCalled ==
    /\ mop.result # "running"
    /\ mop' # mop
    /\ mop'.op = "add_master"

\* C22: add_master with a value that is not blank leaves the trimmed
\* (category, value) in the table exactly once and active, every other row as
\* it was; with a blank value it fails and leaves the table unchanged.
C22_AddMasterUpserts ==
    [][ AddCalled =>
          LET trimmed == Strip(mop'.value)
              had == RowsOf(masters, mop'.category, trimmed)
              has == RowsOf(masters', mop'.category, trimmed)
          IN  IF trimmed = <<>>
              THEN /\ mop'.result = "value_error"
                   /\ masters' = masters
              ELSE /\ mop'.result = "ok"
                   /\ Cardinality(has) = 1
                   /\ \A i \in has : masters'[i].active
                   /\ Len(masters') = Len(masters) + (IF had = {} THEN 1 ELSE 0)
                   /\ \A i \in 1..Len(masters) :
                         IF i \in had
                         THEN masters'[i] = [masters[i] EXCEPT !.active = TRUE]
                         ELSE masters'[i] = masters[i] ]_vars

\* " Ventas ", typed with blanks around it after "Ventas" had been added and
\* deactivated, reactivated the one row of "Ventas".
C22_Witness ==
    /\ mop.op = "add_master"
    /\ mop.category = "Area"
    /\ mop.value = <<" ">> \o Ventas \o <<" ">>
    /\ mop.result = "ok"
    /\ mop.changed
    /\ Len(masters) = Cardinality(SeedPairs) + 2
    /\ Cardinality(RowsOf(masters, "Area", Ventas)) = 1
    /\ \E i \in RowsOf(masters, "Area", Ventas) :
          i = Cardinality(SeedPairs) + 1 /\ masters[i].active

ActionIds == 1..Len(actions)

\* C23: an action's status only moves from pending to done, no action is ever
\* removed or handed to another note, and every action's note is a row of the
\* note store.
C23_ActionStatusOneWay ==
    /\ [](\A a \in ActionIds :
            /\ actions[a].note_id \in 1..Len(notes)
            /\ actions[a].status \in {"pendiente", "hecha"})
    /\ [][ \A a \in ActionIds :
             /\ a <= Len(actions')
             /\ actions'[a].note_id = actions[a].note_id
             /\ actions[a].status = "hecha" => actions'[a].status = "hecha" ]_vars

\* An action of the first note marked done, next to a pending action of the
\* second note.
C23_Witness ==
    /\ ret.op = "mark_action_done"
    /\ ret.arg \in ActionIds
    /\ actions[ret.arg].status = "hecha"
    /\ actions[ret.arg].note_id = 1
    /\ \E b \in ActionIds :
          actions[b].status = "pendiente" /\ actions[b].note_id = 2

\* A step in which create_note stores a note.
NoteStored ==
    /\ ret' # ret
    /\ ret'.op = "create_note"
    /\ ret'.val # NULL

\* C24: when the insert of an enrichment action fails in create_note, the
\* note is stored all the same, every other non-empty action is stored as a
\* pending action of that note, in order, and the note's id is returned.
C24_ActionFailureKeepsRest ==
    [][ NoteStored =>
          LET n == ret'.val[1]
              acciones == ret'.acciones
              kept == { i \in 1..Len(acciones) :
                          Strip(acciones[i]) # <<>> /\ i \notin ret'.failed }
              rank(i) == Cardinality({ j \in kept : j <= i })
          IN  /\ ~ret'.raised
              /\ Len(notes') = Len(notes) + 1
              /\ n = Len(notes')
              /\ SubSeq(notes', 1, Len(notes)) = notes
              /\ Len(actions') = Len(actions) + Cardinality(kept)
              /\ SubSeq(actions', 1, Len(actions)) = actions
              /\ \A i \in kept :
                    LET row == actions'[Len(actions) + rank(i)]
                    IN  /\ row.note_id = n
                        /\ row.description = Strip(acciones[i])
                        /\ row.status = "pendiente" ]_vars

\* Of the two actions of the second note the insert of the first failed: the
\* note is there with the second action alone.
C24_Witness ==
    /\ ret.op = "create_note"
    /\ ret.val = Some(2)
    /\ ret.failed = {1}
    /\ Len(ret.acciones) = 2
    /\ Len(notes) = 2
    /\ Cardinality({ a \in ActionIds : actions[a].note_id = 2 }) = 1
    /\ \E a \in ActionIds :
          /\ actions[a].note_id = 2
          /\ actions[a].description = ret.acciones[2]
          /\ actions[a].status = "pendiente"

\* C25: no outcome of the upstream call makes process_text raise: a capture
\* that is no duplicate ends with its note stored.
C25_EnrichmentNeverRaises ==
    ret.op = "create_note" =>
        /\ ~ret.raised
        /\ \E n \in 1..Len(notes) : notes[n].source_id = ret.arg

\* The actions of a note.
ActionsOf(n) == { a \in ActionIds : actions[a].note_id = n }

\* C26: a note captured from a text with an obligation trigger ("antes del
\* 15/03") while the enrichment gave no action has exactly one action.
C26_FallbackAction ==
    \A n \in 1..Len(notes) :
       ( /\ ret.op = "create_note"
         /\ ret.val = Some(n)
         /\ ret.acciones = <<>>
         /\ notes[n].source_id =
               compute_source_id(normalize_text(TextObligation, MANUAL), MANUAL) )
       => Cardinality(ActionsOf(n)) = 1

NoPendingAction(n) == \A a \in ActionsOf(n) : actions[a].status = "hecha"

\* C27: once create_note or mark_action_done has returned, the note it dealt
\* with has the workflow state "Finalizado" if none of its actions is pending.
C27_NoPendingMeansFinalizado ==
    /\ (ret.op = "create_note" /\ ret.val # NULL /\ NoPendingAction(ret.val[1]))
          => notes[ret.val[1]].estado = Finalizado
    /\ ( /\ ret.op = "mark_action_done"
         /\ ret.val = "returned"
         /\ ret.arg \in ActionIds
         /\ NoPendingAction(actions[ret.arg].note_id) )
          => notes[actions[ret.arg].note_id].estado = Finalizado

\* C28: from the moment mark_action_done is called the action is done in the
\* local table: while the remote update is awaited, after it has failed, and
\* when it was skipped for want of a token; the remote update is tried at most
\* once, and no exception leaves the call.
C28_DoneBeforeRemote ==
    (ret.op = "mark_action_done" /\ ret.arg \in ActionIds) =>
        /\ actions[ret.arg].status = "hecha"
        /\ actions[ret.arg].completed_at # NULL
        /\ ~ret.raised
        /\ ret.val \in {"remote", "returned"}
        /\ ret.val = "remote" => ret.net = 0
        /\ ret.remote = "no_token" => ret.net = 0
        /\ ret.remote \in {"updated", "failed"} => ret.net = 1

\* The remote update of a done action's page has failed and the call has
\* returned.
C28_Witness ==
    /\ ret.op = "mark_action_done"
    /\ ret.arg \in ActionIds
    /\ ret.val = "returned"
    /\ ret.remote = "failed"
    /\ actions[ret.arg].status = "hecha"
    /\ actions[ret.arg].notion_page_id = Some(TaskPage)

\* C29: for a source other than "email_pasted", normalizing an already
\* normalized text gives the same text.
C29_NormalizeIdempotent ==
    (ret.op = "normalize_again" /\ ret.source # EMAIL_PASTED) => ret.val = ret.arg

\* A text was normalized to "a\na", and "a\na" was normalized again.
C29_Witness ==
    /\ ret.op = "normalize_again"
    /\ ret.source = MANUAL
    /\ ret.arg = <<"a", "\n", "a">>
    /\ ret.val = <<"a", "\n", "a">>

Ascending(queue) == \A i, j \in 1..Len(queue) : i < j => queue[i] < queue[j]

\* C30: a pass that selects at time s takes exactly the notes that are pending
\* or in error and whose next_retry_at is null or at most s, no sent note
\* among them, in ascending order of id, and attempts them in that order.
C30_SelectsRetryableAscending ==
    /\ [][ \A w \in Workers :
             (pc[w] = "select" /\ pc'[w] \in {"create", "done"}) =>
                LET queue == loc'[w].queue
                IN  /\ Ascending(queue)
                    /\ \A n \in Ids :
                          InQueue(n, queue) <=>
                             /\ notes[n].status \in {PENDING, ERROR}
                             /\ \/ notes[n].next_retry_at = NULL
                                \/ notes[n].next_retry_at[1] <= clock
                    /\ \A i \in 1..Len(queue) :
                          queue[i] \in Ids /\ notes[queue[i]].status # SENT ]_vars
    /\ [](\A w \in Workers :
             Ascending(obs[w].tried) /\ IsPrefix(obs[w].tried, loc[w].queue))

\* A pass at time 1 has taken the first note, in error since time 0, and the
\* second, still pending, and attempted both in that order.
C30_Witness ==
    /\ Len(notes) = 2
    /\ clock = 1
    /\ loc[1].queue = <<1, 2>>
    /\ obs[1].tried = <<1, 2>>
    /\ notes[1].attempts >= 1

\* C31: the sub-records a pass attempts for a note are the non-empty lines of
\* the note's action text, in line order, each attempted once, after the
\* note's own record was created and before the note is marked sent; a note
\* whose own record failed gets no attempt.
C31_TasksAfterPageBeforeSent ==
    /\ [](\A w \in Workers :
             /\ pc[w] \in {"task", "mark_sent"} =>
                   /\ loc[w].page_id # NULL
                   /\ pages[Current(w)] >= 1
                   /\ IsPrefix(obs[w].task_tried, ActionLines(notes[Current(w)].acciones))
             /\ pc[w] \in {"mark_error", "mark_error_update"} =>
                   obs[w].task_tried = <<>>)
    /\ [][ \A w \in Workers :
             /\ (pc[w] = "mark_sent" /\ pc'[w] \in {"create", "done"}) =>
                   /\ obs[w].task_tried = ActionLines(notes[Current(w)].acciones)
                   /\ notes[Current(w)].status # SENT
                   /\ notes'[Current(w)].status = SENT
             /\ obs'[w].task_tried # obs[w].task_tried =>
                   \/ obs'[w].task_tried = <<>>
                   \/ /\ pc[w] = "task"
                      /\ loc[w].page_id # NULL
                      /\ notes[Current(w)].status # SENT
                      /\ Len(obs'[w].task_tried) = Len(obs[w].task_tried) + 1 ]_vars

\* Both action lines of the first note were attempted and created, in order,
\* and the note is sent.
C31_Witness ==
    /\ pc[1] = "done"
    /\ obs[1].task_tried = << <<"x">>, <<"y">> >>
    /\ ~obs[1].task_failed
    /\ tasks[1] = 2
    /\ pages[1] = 1
    /\ notes[1].status = SENT

\* C32: once a pass has created a remote sub-record for a note, an action row
\* of the note holds a remote record id.
C32_ActionHoldsRemoteId ==
    \A n \in Ids :
       tasks[n] >= 1 =>
          \E a \in ActionsOf(n) : actions[a].notion_page_id # NULL

\* C33: a settings load on the sync worker that overlaps a save on the
\* foreground thread sees all of the old values or all of the new ones,
\* never a mixture of the two.
C33_LoadSeesWholeSettings ==
    \A w \in Workers :
        loc[w].settings # NULL =>
            loc[w].settings[1] \in {DefaultSettings} \cup SettingsSaved

\* C34: the enrichment call and every remote call run on a background
\* worker only.  calls counts the enrichment calls of create_note and ret.net
\* the remote calls of mark_action_done, both made by the handlers of the
\* foreground thread: the foreground thread has made none of either.
C34_ForegroundMakesNoCall ==
    /\ calls = 0
    /\ ret.net = 0

\* C35: _normalize_actions applies the precedence to each element: a mapping
\* gives its non-empty description and then each non-empty sub-item, a string
\* is split on line breaks with the bullet padding stripped, any other scalar
\* element is stringified and kept if non-empty, and null gives nothing; the
\* result holds non-empty strings only.
RECURSIVE C35_Precedence(_)
C35_Precedence(items) ==
    IF items = <<>> THEN <<>>
    ELSE LET value == Head(items)
             here == IF value.type = "object" THEN ActionsOfDict(value)
                     ELSE IF value.type = "str" THEN ChunksOf(value.s)
                     ELSE IF value.type = "null" \/ Strip(value.s) = <<>> THEN <<>>
                     ELSE <<Strip(value.s)>>
         IN  here \o C35_Precedence(Tail(items))

C35_PrecedencePerElement ==
    ret.op = "normalize_actions" =>
        /\ \A i \in 1..Len(ret.val) : ret.val[i] # <<>>
        /\ ret.val = C35_Precedence(IF ret.arg.type = "list" THEN ret.arg.items
                                    ELSE <<ret.arg>>)

\* C36: the attempts of a note never exceed the attempt limit of the
\* settings, and a pass does not select a note that has already failed that
\* many times.
C36_AttemptsWithinLimit ==
    \A w \in Workers :
        loc[w].settings # NULL =>
            /\ \A n \in Ids : notes[n].attempts <= loc[w].settings[1].max_attempts
            /\ pc[w] = "create" =>
                   notes[Current(w)].attempts < loc[w].settings[1].max_attempts

\* C37: two captures whose (normalized text, source) pairs differ never give
\* the same hash input, whatever the sources are, the ones that contain "||"
\* included.
C37_PairsSeparated ==
    ret.op = "compute_source_id" =>
        (ret.val[1] = ret.val[2] => ret.arg[1] = ret.arg[2])

HasBar(str) == \E i \in 1..Len(str) : str[i] = "|"

\* C37, amended: two captures whose sources hold no "|" and whose (normalized
\* text, source) pairs differ never give the same hash input; the text may
\* hold "||".
C37_PairsSeparatedBarFreeSources ==
    ( /\ ret.op = "compute_source_id"
      /\ ~HasBar(ret.arg[1].source)
      /\ ~HasBar(ret.arg[2].source) )
    => (ret.val[1] = ret.val[2] => ret.arg[1] = ret.arg[2])

\* The ids of ("a||b", "c") and ("a", "bc") were computed and differ.
C37_Witness ==
    /\ ret.op = "compute_source_id"
    /\ ret.arg[1] = [text |-> <<"a", "|", "|", "b">>, source |-> <<"c">>]
    /\ ret.arg[2] = [text |-> <<"a">>, source |-> <<"b", "c">>]
    /\ ret.val[1] # ret.val[2]

MarkerLines(text) ==
    LET lines == Split(normalize_newlines(text), "\n")
    IN  { i \in 1..Len(lines) : IsMarkerLine(lines[i]) }

C39_LockedValueActive ==
    \A i \in 1..Len(masters) : masters[i].system_locked => masters[i].active

DescriptionsOf(n) ==
    LET rows == SelectSeq(actions, LAMBDA a : a.note_id = n)
    IN  [i \in 1..Len(rows) |-> rows[i].description]

HasLineBreak(str) == \E i \in 1..Len(str) : str[i] \in {"\n", "\r", "\f"}

====
